---- MODULE Spec2Model ----
(***************************************************************************)
(* Model of the RTX-KG2 gateway: the retrying bulk loader                  *)
(* (kuzu_utils/kz_copy.py, kuzu_utils/kz_create.py, rtx_kg2_to_kuzu/run.py *)
(* and the copy-data notebook), the chunked item reader and the streaming  *)
(* inspector of notebooks/rtx_kg2_functions.py, the JSON-to-columnar       *)
(* notebook, the metaname partitioner, the DDL translator and the          *)
(* create-tables cell of notebooks/rtx_kg2_metanames_parquet_to_kuzu.py.   *)
(*                                                                         *)
(* Each component has its own specification:                               *)
(*   SpecRetry     : one call of kz_execute_with_retries                   *)
(*   SpecLoad      : run_create_and_copy (create tables, then ingest)      *)
(*   SpecReader    : one run of parse_items_by_topmost_item_name           *)
(*   SpecNames     : one run of find_top_level_names                       *)
(*   SpecJson      : runs of notebooks/rtx_kg2_full_json_to_parquet.py     *)
(*   SpecPartition : one run of rtx_kg2_metanames_parquet_for_kuzu.py      *)
(*   SpecChunks    : the partitioner over one sub-dataset of many rows     *)
(*   SpecStages    : a run of either dataset-writing notebook              *)
(*   SpecDdl       : one call of a CREATE statement generator              *)
(*   SpecDrop      : drop_table_if_exists and CREATE for each table        *)
(* The variables of the components a specification does not use keep       *)
(* their idle values.                                                      *)
(***************************************************************************)
EXTENDS Integers, Sequences, FiniteSets, TLC

VARIABLES
    \* ---- kz_execute_with_retries (one call) ----
    kz_impl,      \* which implementation runs: "kz_copy" or "notebook"
    kz_stmt,      \* the statement handed to the call (kz_stmt)
    retry_arg,    \* the value of the retry_count argument at the call
    retry_count,  \* the local retry_count, decremented by the loop
    kpc,          \* "idle" | "loop" | "returned" | "raised"
    responses,    \* the store's answer to each kz_conn.execute of this call
    sleeps,       \* number of time.sleep(0.5) calls of this call
    raised,       \* the exception that left the call, or NoExc
    \* ---- run_create_and_copy ----
    node_cats,    \* category values found in the files under <parquet_dir>/nodes
    edge_dirs,    \* [pred, dir]: predicate value and pair directory under <parquet_dir>/edges
    lpc,          \* "idle" | "create" | "ingest" | "done" | "failed"
    path_idx,     \* position of the running function in its list of dataset paths
    creates,      \* CREATE statements sent to kz_conn.execute so far
    copies,       \* COPY statements sent to kz_conn.execute so far
    called,       \* COPY statements already handed to kz_execute_with_retries
    cur_table,    \* the edges table directory whose pair directories are being ingested
    \* ---- parse_items_by_topmost_item_name (one run of the generator) ----
    n_items,      \* number of records of the collection; record i is the i-th in source order
    chunk_size,   \* the chunk_size argument
    limit,        \* the limit argument
    consumed,     \* records drawn from the ijson.items stream so far
    chunk,        \* the local list chunk
    limit_count,  \* the local limit_count
    batches,      \* the batches yielded so far
    rpc,          \* "idle" | "loop" | "done"
    \* ---- find_top_level_names (one run of the generator) ----
    root,         \* the document's root value: "map" (a JSON object) or "array"
    stack,        \* the document's open containers at the parser's position
    n_events,     \* events the parser has produced so far
    depth,        \* the local depth
    names,        \* the names yielded so far
    root_keys,    \* the keys of the root object read so far, in document order
    nested_keys,  \* the keys read so far in objects below the root
    npc,          \* "idle" | "start" | "parsing" | "done"
    \* ---- the JSON-to-columnar notebook (rtx_kg2_full_json_to_parquet.py) ----
    doc,          \* the source document: its top-level keys and values, in document order
    edge_fields,  \* the key order of the records of "edges" (the schema of from_pylist)
    j_chunk_size, \* chunk_size of the run
    j_counts,     \* top_level_name_item_counts, one count per top-level name
    j_pos,        \* position of the write loop / validation loop in the item-collections
    j_idx,        \* idx of `for idx, value in enumerate(items)`
    j_files,      \* the files under parquet_dir: dataset, idx, rows, columns, writing run
    j_run,        \* number of the run of the notebook over the same parquet_dir
    jpc,          \* "idle" | "inspect" | "write" | "validate" | "done" | "failed"
    \* ---- the metaname partitioner (rtx_kg2_metanames_parquet_for_kuzu.py) ----
    p_nodes,      \* the coarse nodes dataset: the category of each row; row i has id i
    p_edges,      \* the coarse edges dataset: subject, object and predicate of each row
    p_chunk_size, \* chunk_size of the run
    p_path,       \* position of the export loop / comparison loop in its list of datasets
    p_done,       \* the table names of the dataset whose export is finished
    p_table,      \* table_name of the running iteration, or NoName
    p_pairs_done, \* the pairs of the running predicate whose export is finished
    p_pair,       \* (subj, obj) of the running iteration, or NoPair
    p_idx,        \* idx of `for idx, offset in enumerate(chunk_offsets)`
    p_files,      \* the files under parquet_metanames_dir
    p_dirs,       \* the directories made under parquet_metanames_dir
    ppc,          \* "idle" | "clobber" | "export" | "compare" | "done" | "failed" | "ioerror"
    \* ---- the schema-to-DDL translator (one call) ----
    d_impl,       \* "kz_create": ..._from_parquet_path; "notebook": ..._from_parquet_file
    d_schema,     \* parquet_schema: the fields (name, type) of the file read
    d_table_type, \* the table_type argument: "node" or "rel"
    d_mapping,    \* the rel_table_field_mapping argument: the (subj, obj) pairs
    d_pkey,       \* the table_pkey_parquet_field_name argument
    d_result,     \* the statement returned, or NoStmt
    dpc,          \* "idle" | "call" | "returned" | "LookupError"
    \* ---- the create-tables cell of rtx_kg2_metanames_parquet_to_kuzu.py ----
    t_tables,     \* the cypher-safe table names the loop visits, in its order
    t_pos,        \* position of the loop in t_tables
    t_drops,      \* the store's answer to each DROP TABLE sent so far
    t_warned,     \* number of "Warning: no need to drop table." printed
    t_created,    \* the tables whose CREATE was sent to kz_conn.execute
    t_raised,     \* the exception that left the cell, or NoExc
    tpc           \* "idle" | "drop" | "create" | "done" | "raised"

retryVars == <<kz_impl, kz_stmt, retry_arg, retry_count, kpc, responses, sleeps, raised>>

loadVars == <<node_cats, edge_dirs, lpc, path_idx, creates, copies, called, cur_table>>

readerVars == <<n_items, chunk_size, limit, consumed, chunk, limit_count, batches, rpc>>

namesVars == <<root, stack, n_events, depth, names, root_keys, nested_keys, npc>>

jsonVars == <<doc, edge_fields, j_chunk_size, j_counts, j_pos, j_idx, j_files, j_run, jpc>>

partVars == <<p_nodes, p_edges, p_chunk_size, p_path, p_done, p_table, p_pairs_done,
              p_pair, p_idx, p_files, p_dirs, ppc>>

ddlVars == <<d_impl, d_schema, d_table_type, d_mapping, d_pkey, d_result, dpc>>

dropVars == <<t_tables, t_pos, t_drops, t_warned, t_created, t_raised, tpc>>

vars == <<retryVars, loadVars, readerVars, namesVars, jsonVars, partVars, ddlVars, dropVars>>

\* what the actions of each component leave alone
outsideRetry == <<loadVars, readerVars, namesVars, jsonVars, partVars, ddlVars, dropVars>>

outsideLoad == <<readerVars, namesVars, jsonVars, partVars, ddlVars, dropVars>>

outsideReader == <<retryVars, loadVars, namesVars, jsonVars, partVars, ddlVars, dropVars>>

outsideNames == <<retryVars, loadVars, readerVars, jsonVars, partVars, ddlVars, dropVars>>

\* the notebook drives the reader, so its actions state the reader's variables
outsideJson == <<retryVars, loadVars, namesVars, partVars, ddlVars, dropVars>>

outsidePart == <<retryVars, loadVars, readerVars, namesVars, jsonVars, ddlVars, dropVars>>

outsideDdl == <<retryVars, loadVars, readerVars, namesVars, jsonVars, partVars, dropVars>>

outsideDrop == <<retryVars, loadVars, readerVars, namesVars, jsonVars, partVars, ddlVars>>

----------------------------------------------------------------------------
(* Bounds of the model.                                                    *)

\* largest retry_count argument tried in SpecRetry
MaxRetry == 6

\* largest number of pair directories under <parquet_dir>/edges
MaxEdgeDirs == 2

\* largest collection, chunk_size and limit tried in SpecReader
MaxItems == 5

MaxChunk == 3

MaxLimit == 3

\* longest event stream of a document in SpecNames
MaxEvents == 9

\* largest array of a top-level key of the document in SpecJson
MaxElems == 2

\* runs of a notebook over the same directories
MaxRuns == 2

\* largest coarse nodes and edges datasets, and largest chunk_size, of the
\* partitioner in SpecPartition
MaxNodeRows == 2

MaxEdgeRows == 2

MaxPartChunk == 2

\* longest schema and longest list of type pairs handed to the translator in
\* SpecDdl
MaxCols == 3

MaxPairs == 2

\* most tables the create-tables cell visits in SpecDrop
MaxTables == 2

\* most rows of one partition in SpecChunks
MaxPartRows == 3

----------------------------------------------------------------------------
(* Text.  A Python str is a sequence of fragments; ":" and "_" are         *)
(* fragments of their own, so that str.split and the `in` test are         *)
(* computed, not assumed.                                                   *)

\* `frag in text` for a fragment of the text
Contains(text, frag) == \E i \in 1..Len(text) : text[i] = frag

\* default of the retry_count parameter
DefaultRetryCount == 5

----------------------------------------------------------------------------
(* The store's answers to kz_conn.execute.                                 *)

PkeyFragment == "Unable to find primary key value"

\* the message the notebook compares with ==
AlreadyCopiedMsg == <<"Copy exception: COPY commands can only be executed once on a table.">>

PkeyMsg == <<"Copy exception: ", PkeyFragment, " 42 in table Gene.">>

OtherMsg == <<"Binder exception: Table Gene does not exist.">>

Messages == {AlreadyCopiedMsg, PkeyMsg, OtherMsg}

\* exception classes: RuntimeError is what `except RuntimeError` catches
ExcClasses == {"RuntimeError", "Exception"}

Ok == [cls |-> "none", msg |-> <<>>]

NoExc == [cls |-> "none", msg |-> <<"no exception">>]

Errors == [cls : ExcClasses, msg : Messages]

\* everything kz_conn.execute may do: return, or raise one of Errors
StoreResponses == {Ok} \cup Errors

IsPkeyError(e) == e.cls = "RuntimeError" /\ Contains(e.msg, PkeyFragment)

IsAlreadyCopiedError(e) == e.cls = "RuntimeError" /\ e.msg = AlreadyCopiedMsg

IsOtherError(e) == e \in Errors /\ ~IsPkeyError(e) /\ ~IsAlreadyCopiedError(e)

----------------------------------------------------------------------------
(* kz_execute_with_retries.                                                *)

\* mutant: the handler retries on any RuntimeError, whatever its message
RetriesOn_AnyRuntimeError(impl, e) == e.cls = "RuntimeError"

\* the branch `"Unable to find primary key value" in str(runexc)`; in the
\* notebook it is an elif after the equality test of the already-copied text
RetriesOn(impl, e) ==
    /\ e.cls = "RuntimeError"
    /\ ~(impl = "notebook" /\ e.msg = AlreadyCopiedMsg)
    /\ Contains(e.msg, PkeyFragment)

\* the branch that absorbs "COPY commands can only be executed once": only
\* the notebook has it
AbsorbsAlreadyCopied(impl, e) ==
    /\ impl = "notebook"
    /\ e.cls = "RuntimeError"
    /\ e.msg = AlreadyCopiedMsg

\* the call: locals as at function entry
KzCall(impl, stmt, n) ==
    /\ kz_impl' = impl
    /\ kz_stmt' = stmt
    /\ retry_arg' = n
    /\ retry_count' = n
    /\ kpc' = "loop"
    /\ responses' = <<>>
    /\ sleeps' = 0
    /\ raised' = NoExc

\* one iteration of `while retry_count > 1`: execute, then break, absorb,
\* wait and decrement, or re-raise
KzAttempt(r) ==
    /\ kpc = "loop"
    /\ retry_count > 1
    /\ responses' = Append(responses, r)
    /\ IF r = Ok
         THEN /\ kpc' = "returned"
              /\ UNCHANGED <<retry_count, sleeps, raised>>
       ELSE IF AbsorbsAlreadyCopied(kz_impl, r)
         THEN /\ kpc' = "returned"
              /\ UNCHANGED <<retry_count, sleeps, raised>>
       ELSE IF RetriesOn(kz_impl, r)
         THEN /\ sleeps' = sleeps + 1
              /\ retry_count' = retry_count - 1
              /\ UNCHANGED <<kpc, raised>>
       ELSE /\ kpc' = "raised"
            /\ raised' = r
            /\ UNCHANGED <<retry_count, sleeps>>
    /\ UNCHANGED <<kz_impl, kz_stmt, retry_arg>>

\* the loop condition fails: the function falls off its end and returns None
KzLoopExit ==
    /\ kpc = "loop"
    /\ retry_count <= 1
    /\ kpc' = "returned"
    /\ UNCHANGED <<kz_impl, kz_stmt, retry_arg, retry_count, responses, sleeps, raised>>

\* number of execute calls made so far by the call
attempts == Len(responses)

RECURSIVE PkeyCount(_)
PkeyCount(rs) ==
    IF rs = <<>> THEN 0
    ELSE (IF IsPkeyError(rs[Len(rs)]) THEN 1 ELSE 0) + PkeyCount(SubSeq(rs, 1, Len(rs) - 1))

AllPkey(rs) == \A i \in 1..Len(rs) : IsPkeyError(rs[i])

----------------------------------------------------------------------------
(* Names and statements of the load pipeline.                              *)

RECURSIVE Split(_, _)
\* str.split(sep): the parts of text between the separator fragments
Split(text, sep) ==
    IF \A i \in 1..Len(text) : text[i] # sep
    THEN <<text>>
    ELSE LET k == CHOOSE i \in 1..Len(text) :
                     text[i] = sep /\ \A j \in 1..(i - 1) : text[j] # sep
         IN  <<SubSeq(text, 1, k - 1)>> \o Split(SubSeq(text, k + 1, Len(text)), sep)

\* cypher_safe_table_name = table_name.split(":")[1]
CypherSafeTableName(table_name) == Split(table_name, ":")[2]

\* the directory name f"{subj}_{obj}" of a pair of node types
PairDirName(subj, obj) == subj \o <<"_">> \o obj

TypeNames == {<<"Gene">>, <<"Drug">>, <<"Small", "_", "Molecule">>}

Categories == {<<"biolink", ":">> \o t : t \in TypeNames}

Predicates == {<<"biolink", ":", "treats">>, <<"biolink", ":", "related", "_", "to">>}

\* dataset_name_to_cypher_table_type_map
DecodedType(dataset) == IF dataset = "nodes" THEN "node" ELSE "rel"

\* mutant: the create loop takes the edges dataset first
CreatePaths_EdgesFirst == <<"edges", "nodes">>

\* the list create_kuzu_tables iterates: nodes, then edges
CreatePaths == <<"nodes", "edges">>

\* mutant: the ingest loop takes the edges dataset first
IngestPaths_EdgesFirst == <<"edges", "nodes">>

\* the list ingest_data_to_kuzu_tables iterates: nodes, then edges
IngestPaths == <<"nodes", "edges">>

\* the directories under <parquet_dir>/nodes: one per category, named after
\* its type name
NodeTableDirs == {CypherSafeTableName(c) : c \in node_cats}

\* the directories under <parquet_dir>/edges: one per predicate
EdgeTableDirs == {Split(k.pred, ":")[2] : k \in edge_dirs}

\* pathlib.Path(table).glob("*"): the pair directories of an edges table
RelNodePairs(table) == {k.dir : k \in {e \in edge_dirs : Split(e.pred, ":")[2] = table}}

\* rel_table_field_mapping: each pair directory name split on "_"
RelTableFieldMapping(table) == {Split(d, "_") : d \in RelNodePairs(table)}

\* `for subj, obj in rel_table_field_mapping` unpacks two values
Unpacks(mapping) == \A m \in mapping : Len(m) = 2

\* mutant: a relationship table is always created as a group
RelCreateStmt_AlwaysGroup(table_name, mapping) ==
    [op |-> "CREATE REL TABLE GROUP", kind |-> "rel", table |-> table_name, pairs |-> mapping]

\* the statement generate_cypher_table_create_stmt_from_parquet_path returns
\* for a relationship table: plain for one pair, GROUP otherwise
RelCreateStmt(table_name, mapping) ==
    [op    |-> IF Cardinality(mapping) = 1 THEN "CREATE REL TABLE"
               ELSE "CREATE REL TABLE GROUP",
     kind  |-> "rel",
     table |-> table_name,
     pairs |-> mapping]

NodeCreateStmt(table_name) ==
    [op |-> "CREATE NODE TABLE", kind |-> "node", table |-> table_name, pairs |-> {}]

\* mutant: the ingest addresses the group by its own name, whatever the
\* number of pairs
RelCopyTarget_AlwaysPlain(table, rel_node_pair_name, n_pairs) == table

\* the table a relationship COPY names: the table directory when it holds one
\* pair directory, f"{table.name}_{rel_node_pair_name}" otherwise
RelCopyTarget(table, rel_node_pair_name, n_pairs) ==
    IF n_pairs = 1 THEN table ELSE table \o <<"_">> \o rel_node_pair_name

CopyStmt(kind, target, dir) ==
    [op |-> "COPY", kind |-> kind, table |-> target, from |-> dir]

\* the tables a CREATE statement declares in the store: the table itself, or
\* for a group one member <name>_<subj>_<obj> per FROM/TO pair
Declares(stmt) ==
    IF stmt.op = "CREATE REL TABLE GROUP"
    THEN {stmt.table \o <<"_">> \o m[1] \o <<"_">> \o m[2] : m \in stmt.pairs}
    ELSE {stmt.table}

----------------------------------------------------------------------------
(* run_create_and_copy: create_kuzu_tables, then ingest_data_to_kuzu_tables *)

\* what kz_conn.execute may do with a CREATE: return or raise
CreateResponses == {Ok, [cls |-> "RuntimeError", msg |-> OtherMsg]}

NoTable == <<>>

CreatedTables == {c.table : c \in creates}

\* create_kuzu_tables, nodes dataset: one CREATE NODE TABLE per distinct
\* category, in the order the DISTINCT query returns them
CreateNodeTable(c, r) ==
    /\ lpc = "create"
    /\ path_idx <= Len(CreatePaths)
    /\ DecodedType(CreatePaths[path_idx]) = "node"
    /\ c \in node_cats
    /\ CypherSafeTableName(c) \notin CreatedTables
    /\ creates' = creates \cup {NodeCreateStmt(CypherSafeTableName(c))}
    /\ lpc' = IF r = Ok THEN "create" ELSE "failed"
    /\ UNCHANGED <<node_cats, edge_dirs, path_idx, copies, called, cur_table, retryVars>>
    /\ UNCHANGED outsideLoad

\* create_kuzu_tables, edges dataset: one CREATE REL TABLE (GROUP) per distinct
\* predicate; the unpacking of a pair name that does not split in two raises
\* before anything is sent
CreateRelTable(p, r) ==
    /\ lpc = "create"
    /\ path_idx <= Len(CreatePaths)
    /\ DecodedType(CreatePaths[path_idx]) = "rel"
    /\ p \in {k.pred : k \in edge_dirs}
    /\ CypherSafeTableName(p) \notin CreatedTables
    /\ LET name == CypherSafeTableName(p)
           mapping == RelTableFieldMapping(name)
       IN  IF Unpacks(mapping)
           THEN /\ creates' = creates \cup {RelCreateStmt(name, mapping)}
                /\ lpc' = IF r = Ok THEN "create" ELSE "failed"
           ELSE /\ creates' = creates
                /\ lpc' = "failed"
    /\ UNCHANGED <<node_cats, edge_dirs, path_idx, copies, called, cur_table, retryVars>>
    /\ UNCHANGED outsideLoad

\* the tables of the dataset the create loop is at are all done: next dataset
CreateNextPath ==
    /\ lpc = "create"
    /\ path_idx <= Len(CreatePaths)
    /\ IF DecodedType(CreatePaths[path_idx]) = "node"
       THEN \A c \in node_cats : CypherSafeTableName(c) \in CreatedTables
       ELSE \A k \in edge_dirs : CypherSafeTableName(k.pred) \in CreatedTables
    /\ path_idx' = path_idx + 1
    /\ UNCHANGED <<node_cats, edge_dirs, lpc, creates, copies, called, cur_table, retryVars>>
    /\ UNCHANGED outsideLoad

\* create_kuzu_tables returns and run_create_and_copy calls the ingest
CreateReturns ==
    /\ lpc = "create"
    /\ path_idx > Len(CreatePaths)
    /\ lpc' = "ingest"
    /\ path_idx' = 1
    /\ UNCHANGED <<node_cats, edge_dirs, creates, copies, called, cur_table, retryVars>>
    /\ UNCHANGED outsideLoad

\* the previous kz_execute_with_retries call, if any, has returned
IngestRunning ==
    /\ lpc = "ingest"
    /\ path_idx <= Len(IngestPaths)
    /\ kpc \in {"idle", "returned"}

\* ingest, nodes dataset: COPY <dir name> for the next table directory
CopyNodeTable(table) ==
    /\ IngestRunning
    /\ DecodedType(IngestPaths[path_idx]) = "node"
    /\ table \in NodeTableDirs
    /\ LET stmt == CopyStmt("node", table, <<table>>)
       IN  /\ stmt \notin called
           /\ called' = called \cup {stmt}
           /\ KzCall("kz_copy", stmt, DefaultRetryCount)
    /\ UNCHANGED <<node_cats, edge_dirs, lpc, path_idx, creates, copies, cur_table>>
    /\ UNCHANGED outsideLoad

\* ingest, edges dataset: the next table directory, then one COPY per pair
\* directory of it
CopyRelTable(table, pair) ==
    /\ IngestRunning
    /\ DecodedType(IngestPaths[path_idx]) = "rel"
    /\ table \in EdgeTableDirs
    /\ pair \in RelNodePairs(table)
    /\ \/ cur_table = table
       \/ /\ \A d \in RelNodePairs(cur_table) :
                 \E s \in called : s.from = <<cur_table, d>>
          /\ \A s \in called : s.kind = "rel" => s.from[1] # table
    /\ LET stmt == CopyStmt("rel",
                            RelCopyTarget(table, pair, Cardinality(RelNodePairs(table))),
                            <<table, pair>>)
       IN  /\ stmt \notin called
           /\ called' = called \cup {stmt}
           /\ KzCall("kz_copy", stmt, DefaultRetryCount)
    /\ cur_table' = table
    /\ UNCHANGED <<node_cats, edge_dirs, lpc, path_idx, creates, copies>>
    /\ UNCHANGED outsideLoad

\* one kz_conn.execute of the running kz_execute_with_retries call
IngestAttempt(r) ==
    /\ lpc = "ingest"
    /\ KzAttempt(r)
    /\ copies' = copies \cup {kz_stmt}
    /\ UNCHANGED <<node_cats, edge_dirs, lpc, path_idx, creates, called, cur_table>>
    /\ UNCHANGED outsideLoad

\* the retry loop of the running call ends without a further execute
IngestLoopExit ==
    /\ lpc = "ingest"
    /\ KzLoopExit
    /\ UNCHANGED loadVars
    /\ UNCHANGED outsideLoad

\* every table directory of the dataset the ingest loop is at has been handled
IngestNextPath ==
    /\ IngestRunning
    /\ IF DecodedType(IngestPaths[path_idx]) = "node"
       THEN \A t \in NodeTableDirs : \E s \in called : s.from = <<t>>
       ELSE \A k \in edge_dirs :
                \E s \in called : s.from = <<Split(k.pred, ":")[2], k.dir>>
    /\ path_idx' = path_idx + 1
    /\ UNCHANGED <<node_cats, edge_dirs, lpc, creates, copies, called, cur_table, retryVars>>
    /\ UNCHANGED outsideLoad

\* "Finished running Kuzu COPY statements."
IngestReturns ==
    /\ lpc = "ingest"
    /\ path_idx > Len(IngestPaths)
    /\ lpc' = "done"
    /\ UNCHANGED <<node_cats, edge_dirs, path_idx, creates, copies, called, cur_table, retryVars>>
    /\ UNCHANGED outsideLoad

----------------------------------------------------------------------------
(* parse_items_by_topmost_item_name.                                       *)

\* mutant: the limit test lets one batch too many through
WithinLimit_OffByOne(lim, count) == lim = 0 \/ count <= lim

\* `limit == 0 or limit_count < limit`
WithinLimit(lim, count) == lim = 0 \/ count < lim

\* mutant: the remaining chunk is yielded even when it is empty
LastChunk_Always(c) == <<c>>

\* `if chunk: yield chunk` after the loop: the batches it adds
LastChunk(c) == IF c # <<>> THEN <<c>> ELSE <<>>

\* one iteration of `for item in objects`: the next record is drawn from the
\* stream; within the limit it is appended, and a full chunk is yielded
ReadItem ==
    /\ rpc = "loop"
    /\ consumed < n_items
    /\ consumed' = consumed + 1
    /\ IF WithinLimit(limit, limit_count)
       THEN IF Len(chunk) + 1 = chunk_size
            THEN /\ batches' = Append(batches, Append(chunk, consumed + 1))
                 /\ limit_count' = limit_count + 1
                 /\ chunk' = <<>>
            ELSE /\ chunk' = Append(chunk, consumed + 1)
                 /\ UNCHANGED <<batches, limit_count>>
       ELSE UNCHANGED <<chunk, batches, limit_count>>
    /\ UNCHANGED <<n_items, chunk_size, limit, rpc>>
    /\ UNCHANGED outsideReader

\* the stream is exhausted: the loop ends, the remaining chunk is yielded
ReadEnd ==
    /\ rpc = "loop"
    /\ consumed = n_items
    /\ batches' = batches \o LastChunk(chunk)
    /\ rpc' = "done"
    /\ UNCHANGED <<n_items, chunk_size, limit, consumed, chunk, limit_count>>
    /\ UNCHANGED outsideReader

RECURSIVE Flatten(_)
\* the records of a sequence of batches, in the order emitted
Flatten(bs) == IF bs = <<>> THEN <<>> ELSE bs[1] \o Flatten(Tail(bs))

Min(a, b) == IF a <= b THEN a ELSE b

----------------------------------------------------------------------------
(* find_top_level_names over the event stream of ijson.parse.              *)

Keys == {"nodes", "meta"}

\* a stack entry: an object waiting for a key or its end, an object waiting for
\* the value of the key just read, or an array
MapKey == "map_key?"

MapValue == "map_value?"

Array == "array"

\* a value ended under the container on top of st: an object that waited for
\* the value now waits for a key
ValueRead(st) ==
    IF st # <<>> /\ st[Len(st)] = MapValue
    THEN [st EXCEPT ![Len(st)] = MapKey]
    ELSE st

Pop(st) == SubSeq(st, 1, Len(st) - 1)

\* the events ijson.parse can produce next, with the container stack after each
NextEvents ==
    IF npc = "start"
    THEN {IF root = "map"
          THEN [event |-> "start_map", value |-> "", stack |-> <<MapKey>>]
          ELSE [event |-> "start_array", value |-> "", stack |-> <<Array>>]}
    ELSE IF stack = <<>> THEN {}
    ELSE LET top == stack[Len(stack)]
             value == {[event |-> "string", value |-> "x", stack |-> ValueRead(stack)],
                       [event |-> "start_map", value |-> "", stack |-> Append(ValueRead(stack), MapKey)],
                       [event |-> "start_array", value |-> "", stack |-> Append(ValueRead(stack), Array)]}
         IN  CASE top = MapKey ->
                    {[event |-> "map_key", value |-> k, stack |-> [stack EXCEPT ![Len(stack)] = MapValue]] :
                         k \in Keys}
                    \cup {[event |-> "end_map", value |-> "", stack |-> Pop(stack)]}
               [] top = MapValue -> value
               [] OTHER -> value \cup {[event |-> "end_array", value |-> "", stack |-> Pop(stack)]}

\* depth after the event: start_map adds one, end_map takes one
DepthAfter(event, d) ==
    IF event = "start_map" THEN d + 1
    ELSE IF event = "end_map" THEN d - 1
    ELSE d

\* mutant: a key is yielded at any depth inside the root
YieldsName_AnyDepth(event, d) == event = "map_key" /\ d >= 1

\* `elif event == "map_key" and depth == 1`
YieldsName(event, d) == event = "map_key" /\ d = 1

\* one iteration of `for prefix, event, value in parser`
ParseEvent(e) ==
    /\ npc \in {"start", "parsing"}
    /\ n_events < MaxEvents
    /\ e \in NextEvents
    /\ stack' = e.stack
    /\ n_events' = n_events + 1
    /\ depth' = DepthAfter(e.event, depth)
    /\ names' = IF YieldsName(e.event, depth) THEN Append(names, e.value) ELSE names
    /\ root_keys' = IF e.event = "map_key" /\ Len(stack) = 1 /\ root = "map"
                    THEN Append(root_keys, e.value) ELSE root_keys
    /\ nested_keys' = IF e.event = "map_key" /\ Len(stack) > 1
                      THEN nested_keys \cup {[key |-> e.value, level |-> Len(stack),
                                               parent |-> stack[Len(stack) - 1]]}
                      ELSE nested_keys
    /\ npc' = "parsing"
    /\ UNCHANGED root
    /\ UNCHANGED outsideNames

\* the root value is closed: the stream ends and the generator returns
ParseEnd ==
    /\ npc = "parsing"
    /\ stack = <<>>
    /\ npc' = "done"
    /\ UNCHANGED <<root, stack, n_events, depth, names, root_keys, nested_keys>>
    /\ UNCHANGED outsideNames

----------------------------------------------------------------------------
(* The JSON-to-columnar notebook (rtx_kg2_full_json_to_parquet.py):        *)
(* inspect the document, classify its top-level names, write the item      *)
(* collections with the chunked reader, validate the row counts.           *)

\* the keys of the source document, in document order
DocNames == <<"build", "nodes", "edges">>

\* a top-level value: a scalar, an object, or an array of n records
Values ==
    {[kind |-> "scalar", n |-> 0], [kind |-> "map", n |-> 0]}
        \cup {[kind |-> "array", n |-> k] : k \in 0..MaxElems}

Docs ==
    {[i \in 1..Len(DocNames) |-> [name |-> DocNames[i], value |-> v[i]]] :
        v \in [1..Len(DocNames) -> Values]}

\* list(find_top_level_names(target_extracted_data))
TopLevelNames == [i \in 1..Len(doc) |-> doc[i].name]

ValueOf(name) == doc[CHOOSE i \in 1..Len(doc) : doc[i].name = name].value

\* the stream ijson.items(f, f"{top_level_name}.item"): the elements of the
\* array under the name, nothing for a value that is not an array
ItemsUnder(value) == IF value.kind = "array" THEN [i \in 1..value.n |-> i] ELSE <<>>

RECURSIVE CountLoop(_)
\* `for item in parser: count += 1`
CountLoop(items) == IF items = <<>> THEN 0 ELSE 1 + CountLoop(Tail(items))

CountItemsUnderTopLevelName(top_level_name) == CountLoop(ItemsUnder(ValueOf(top_level_name)))

\* mutant: a collection of one item is taken for metadata too
IsMetadataCount_AtMostOne(count) == count <= 1

\* `if count == 0` of metadata_top_level_names
IsMetadataCount(count) == count = 0

MetadataTopLevelNames ==
    {TopLevelNames[i] : i \in {k \in 1..Len(j_counts) : IsMetadataCount(j_counts[k])}}

NotMetadata(name) == name \notin MetadataTopLevelNames

\* `[name for name in top_level_names if name not in metadata_top_level_names]`
ItemCollections == SelectSeq(TopLevelNames, NotMetadata)

\* top_level_name_item_counts[top_level_name]
ItemCount(name) == j_counts[CHOOSE i \in 1..Len(doc) : doc[i].name = name]

\* the key order of the node records
NodeFields == <<"id", "category", "name">>

\* key orders of the edge records tried
EdgeFieldOrders ==
    {<<"subject", "object", "predicate">>,
     <<"predicate", "object", "id", "subject">>}

edges_from_to_map == [from |-> "subject", to |-> "object"]

NotFromTo(name) == name \notin {edges_from_to_map.from, edges_from_to_map.to}

\* mutant: the edge table is written with the columns in record order
TableSelect_RecordOrder(names_) == names_

\* table.select([from, to] + [name for name in table.schema.names if name
\* not in edges_from_to_map.values()])
TableSelect(names_) ==
    <<edges_from_to_map.from, edges_from_to_map.to>> \o SelectSeq(names_, NotFromTo)

\* the key of the schema string in metadata_dict
SchemaKey == "source_data_json_schema"

\* target_extracted_sample_data_schema: the text of the schema file
SchemaText == [kind |-> "scalar", n |-> 0]

\* parse_metadata_by_object_name: next(ijson.items(f, metadata_object_name))
ParseMetadataByObjectName(metadata_object_name) == ValueOf(metadata_object_name)

\* metadata_dict: one entry per metadata name and the schema string
MetadataDict ==
    {<<name, ParseMetadataByObjectName(name)>> : name \in MetadataTopLevelNames}
        \cup {<<SchemaKey, SchemaText>>}

\* the files of a dataset directory
FilesOf(files, dataset) == {f \in files : f.dataset = dataset}

RECURSIVE SumRows(_)
\* sum of num_rows over a set of files
SumRows(files) ==
    IF files = {} THEN 0
    ELSE LET f == CHOOSE x \in files : TRUE IN f.rows + SumRows(files \ {f})

\* parquet.write_table(where=f"{dataset_path}/{top_level_name}.{idx}.parquet"):
\* a file of that path is replaced, every other file stays
WriteTable(files, dataset, idx, rows, columns) ==
    {f \in files : ~(f.dataset = dataset /\ f.idx = idx)}
        \cup {[dataset |-> dataset, idx |-> idx, rows |-> rows,
               columns |-> columns, metadata |-> MetadataDict, run |-> j_run]}

\* the notebook's first cells: the names, their item counts
Inspect ==
    /\ jpc = "inspect"
    /\ j_counts' = [i \in 1..Len(doc) |-> CountItemsUnderTopLevelName(TopLevelNames[i])]
    /\ jpc' = "write"
    /\ j_pos' = 1
    /\ UNCHANGED <<doc, edge_fields, j_chunk_size, j_idx, j_files, j_run>>
    /\ UNCHANGED readerVars
    /\ UNCHANGED outsideJson

\* next item-collection: mkdir(exist_ok=True) keeps what the directory holds;
\* parse_items_by_topmost_item_name(..., chunk_size, 0) is started
StartCollection ==
    /\ jpc = "write"
    /\ rpc = "idle"
    /\ j_pos <= Len(ItemCollections)
    /\ n_items' = Len(ItemsUnder(ValueOf(ItemCollections[j_pos])))
    /\ chunk_size' = j_chunk_size
    /\ limit' = 0
    /\ consumed' = 0
    /\ chunk' = <<>>
    /\ limit_count' = 0
    /\ batches' = <<>>
    /\ rpc' = "loop"
    /\ j_idx' = 0
    /\ UNCHANGED <<doc, edge_fields, j_chunk_size, j_counts, j_pos, j_files, j_run, jpc>>
    /\ UNCHANGED outsideJson

\* the generator runs until its next yield or its end
WriterReadItem == jpc = "write" /\ j_idx = Len(batches) /\ ReadItem

WriterReadEnd == jpc = "write" /\ j_idx = Len(batches) /\ ReadEnd

\* the body of `for idx, value in enumerate(items)`: a nodes file, an edges
\* file with the endpoint columns first, nothing for another name
WriteBatch ==
    /\ jpc = "write"
    /\ j_idx < Len(batches)
    /\ LET top_level_name == ItemCollections[j_pos]
           value == batches[j_idx + 1]
       IN  j_files' =
             IF top_level_name = "nodes"
             THEN WriteTable(j_files, top_level_name, j_idx, Len(value), NodeFields)
             ELSE IF top_level_name = "edges"
             THEN WriteTable(j_files, top_level_name, j_idx, Len(value), TableSelect(edge_fields))
             ELSE j_files
    /\ j_idx' = j_idx + 1
    /\ UNCHANGED <<doc, edge_fields, j_chunk_size, j_counts, j_pos, j_run, jpc>>
    /\ UNCHANGED readerVars
    /\ UNCHANGED outsideJson

\* the generator is exhausted and its last batch written
EndCollection ==
    /\ jpc = "write"
    /\ rpc = "done"
    /\ j_idx = Len(batches)
    /\ j_pos' = j_pos + 1
    /\ n_items' = 0
    /\ chunk_size' = 0
    /\ limit' = 0
    /\ consumed' = 0
    /\ chunk' = <<>>
    /\ limit_count' = 0
    /\ batches' = <<>>
    /\ rpc' = "idle"
    /\ j_idx' = 0
    /\ UNCHANGED <<doc, edge_fields, j_chunk_size, j_counts, j_files, j_run, jpc>>
    /\ UNCHANGED outsideJson

\* the write loop is over: the validation cell starts
WriteDone ==
    /\ jpc = "write"
    /\ rpc = "idle"
    /\ j_pos > Len(ItemCollections)
    /\ jpc' = "validate"
    /\ j_pos' = 1
    /\ UNCHANGED <<doc, edge_fields, j_chunk_size, j_counts, j_idx, j_files, j_run>>
    /\ UNCHANGED readerVars
    /\ UNCHANGED outsideJson

\* mutant: the comparison of the validation cell lets any count through
CountsDiffer_Never(count, rows) == FALSE

\* `top_level_name_item_counts[top_level_name] != sum([...num_rows...])`
CountsDiffer(count, rows) == count # rows

\* one iteration of the validation loop: ValueError on a mismatch
Validate ==
    /\ jpc = "validate"
    /\ j_pos <= Len(ItemCollections)
    /\ LET top_level_name == ItemCollections[j_pos]
       IN  IF CountsDiffer(ItemCount(top_level_name), SumRows(FilesOf(j_files, top_level_name)))
           THEN /\ jpc' = "failed"
                /\ UNCHANGED j_pos
           ELSE /\ j_pos' = j_pos + 1
                /\ UNCHANGED jpc
    /\ UNCHANGED <<doc, edge_fields, j_chunk_size, j_counts, j_idx, j_files, j_run>>
    /\ UNCHANGED readerVars
    /\ UNCHANGED outsideJson

\* every item-collection passed the comparison
Validated ==
    /\ jpc = "validate"
    /\ j_pos > Len(ItemCollections)
    /\ jpc' = "done"
    /\ UNCHANGED <<doc, edge_fields, j_chunk_size, j_counts, j_pos, j_idx, j_files, j_run>>
    /\ UNCHANGED readerVars
    /\ UNCHANGED outsideJson

\* the notebook is run again over the same document and parquet_dir, with
\* chunk_size edited or not: nothing of parquet_dir is removed
Rerun(c) ==
    /\ jpc \in {"done", "failed"}
    /\ j_run < MaxRuns
    /\ j_run' = j_run + 1
    /\ j_chunk_size' = c
    /\ j_counts' = <<>>
    /\ j_pos' = 1
    /\ jpc' = "inspect"
    /\ UNCHANGED <<doc, edge_fields, j_idx, j_files>>
    /\ UNCHANGED readerVars
    /\ UNCHANGED outsideJson

----------------------------------------------------------------------------
(* The metaname partitioner (rtx_kg2_metanames_parquet_for_kuzu.py): the   *)
(* coarse nodes dataset is exported per category, the coarse edges dataset *)
(* per predicate and pair of node types, then the sizes are compared.      *)

\* category and predicate values of the coarse datasets: `prefix:name`, two
\* of each with the same name under different prefixes
SourceCategories ==
    {<<"biolink", ":", "Gene">>, <<"biolink", ":", "Drug">>, <<"umls", ":", "Gene">>}

SourcePredicateList ==
    <<<<"biolink", ":", "treats">>, <<"umls", ":", "treats">>,
      <<"biolink", ":", "related", "_", "to">>>>

SourcePredicates == {SourcePredicateList[i] : i \in 1..Len(SourcePredicateList)}

\* SQL NULL in a query result, None in Python
Null == <<"NULL">>

NoName == <<>>

NoPair == <<>>

\* an f-string formats None as the text None
PyStr(x) == IF x = Null THEN <<"None">> ELSE x

\* split_part(text, sep, n) of DuckDB: the n-th part, '' when there is none
SplitPart(text, sep, n) ==
    LET parts == Split(text, sep) IN IF n <= Len(parts) THEN parts[n] ELSE <<>>

\* the datasets of the export loop: nodes, then edges
PartitionPaths == <<"nodes", "edges">>

NodeIds == 1..Len(p_nodes)

EdgeIds == 1..Len(p_edges)

\* split_part(node.category, ':', 2) of the row the LEFT JOIN finds for an id:
\* NULL when no node row has the id
JoinedCategory(id) == IF id \in NodeIds THEN SplitPart(p_nodes[id], ":", 2) ELSE Null

\* gather_table_names_from_parquet_path: SELECT DISTINCT of the name column
GatherTableNames(dataset) ==
    IF dataset = "nodes" THEN {p_nodes[i] : i \in NodeIds}
    ELSE {p_edges[i].predicate : i \in EdgeIds}

\* mutant: NULL compares as the text Python prints for None
SqlEquals_NullIsNoneText(value, literal) == PyStr(value) = literal

\* `=` of SQL between a value and a text literal: not true of NULL
SqlEquals(value, literal) == value # Null /\ value = literal

\* the rows of `WHERE category = '{table_name}'`
NodeRowsOf(table_name) == {i \in NodeIds : p_nodes[i] = table_name}

\* distinct_node_type_pairs of a predicate
DistinctNodeTypePairs(table_name) ==
    {<<JoinedCategory(p_edges[i].subject), JoinedCategory(p_edges[i].object)>> :
        i \in {k \in EdgeIds : p_edges[k].predicate = table_name}}

\* the rows of `WHERE predicate = '{table_name}' AND split_part(subj_node.category,
\* ':', 2) = '{subj}' AND split_part(obj_node.category, ':', 2) = '{obj}'`
EdgeRowsOf(table_name, subj, obj) ==
    {i \in EdgeIds :
        /\ p_edges[i].predicate = table_name
        /\ SqlEquals(JoinedCategory(p_edges[i].subject), PyStr(subj))
        /\ SqlEquals(JoinedCategory(p_edges[i].object), PyStr(obj))}

\* mutant: the offset of a last, shorter chunk is left out
ChunkOffsets_FullChunksOnly(rowcount, step) ==
    {o \in 0..(rowcount - 1) : o % step = 0 /\ o + step <= rowcount}

\* list(range(0, rowcount, chunk_size)); enumerate gives offset o the index
\* o / chunk_size
ChunkOffsets(rowcount, step) == {o \in 0..(rowcount - 1) : o % step = 0}

\* what `LIMIT size OFFSET offset` can return without ORDER BY: the rows
\* at these positions of whatever order the engine gives this query
Pages(rows, size, offset) ==
    {pg \in SUBSET rows : Cardinality(pg) = Min(size, Cardinality(rows) - offset)}

\* the columns of the coarse files, which SELECT * and SELECT edge.* keep
CoarseColumns(dataset) == IF dataset = "nodes" THEN NodeFields ELSE TableSelect(edge_fields)

\* the directory f"{subj}_{obj}" of a pair of the DISTINCT query
PairDirOf(pair) == PairDirName(PyStr(pair[1]), PyStr(pair[2]))

\* the schema metadata of the table `ddb.execute(...).arrow()` returns: a
\* query result has none, and the export does not call
\* replace_schema_metadata
ArrowResultMetadata == {}

\* the run that wrote a file: the one observed, or one before it
ThisRun == "this"

EarlierRun == "earlier"

\* parquet.write_table(where=...): a file of that path is replaced
WriteMetanameTable(files, dataset, table, pair, name, idx, ids, part) ==
    {f \in files : ~(/\ f.dataset = dataset /\ f.table = table /\ f.pair = pair
                     /\ f.name = name /\ f.idx = idx)}
        \cup {[dataset |-> dataset, table |-> table, pair |-> pair, name |-> name,
               idx |-> idx, rows |-> Cardinality(ids), ids |-> ids,
               columns |-> CoarseColumns(dataset), metadata |-> ArrowResultMetadata,
               part |-> part, run |-> ThisRun]}

\* `if is_dir(): shutil.rmtree(parquet_metanames_dir)` and mkdir
Clobber ==
    /\ ppc = "clobber"
    /\ p_files' = {}
    /\ p_dirs' = {}
    /\ ppc' = "export"
    /\ UNCHANGED <<p_nodes, p_edges, p_chunk_size, p_path, p_done, p_table, p_pairs_done,
                   p_pair, p_idx>>
    /\ UNCHANGED outsidePart

Exporting(dataset) ==
    /\ ppc = "export"
    /\ p_path <= Len(PartitionPaths)
    /\ PartitionPaths[p_path] = dataset

\* next table_name of the DISTINCT list, in the order the query gives: its
\* directory is made (exist_ok=True)
StartTable(table_name) ==
    /\ ppc = "export"
    /\ p_path <= Len(PartitionPaths)
    /\ p_table = NoName
    /\ table_name \in GatherTableNames(PartitionPaths[p_path]) \ p_done
    /\ p_table' = table_name
    /\ p_dirs' = p_dirs \cup {<<PartitionPaths[p_path], CypherSafeTableName(table_name)>>}
    /\ p_idx' = 0
    /\ UNCHANGED <<p_nodes, p_edges, p_chunk_size, p_path, p_done, p_pairs_done,
                   p_pair, p_files, ppc>>
    /\ UNCHANGED outsidePart

\* one chunk file of a category: f"{base}/{safe}.{idx}.parquet"
WriteNodeChunk(ids) ==
    /\ Exporting("nodes")
    /\ p_table # NoName
    /\ p_idx * p_chunk_size \in ChunkOffsets(Cardinality(NodeRowsOf(p_table)), p_chunk_size)
    /\ ids \in Pages(NodeRowsOf(p_table), p_chunk_size, p_idx * p_chunk_size)
    /\ LET safe == CypherSafeTableName(p_table)
       IN  p_files' = WriteMetanameTable(p_files, "nodes", safe, NoPair, safe, p_idx, ids,
                                         <<p_table>>)
    /\ p_idx' = p_idx + 1
    /\ UNCHANGED <<p_nodes, p_edges, p_chunk_size, p_path, p_done, p_table, p_pairs_done,
                   p_pair, p_dirs, ppc>>
    /\ UNCHANGED outsidePart

\* next pair of distinct_node_type_pairs: its directory is made
StartPair(pair) ==
    /\ Exporting("edges")
    /\ p_table # NoName
    /\ p_pair = NoPair
    /\ pair \in DistinctNodeTypePairs(p_table) \ p_pairs_done
    /\ p_pair' = pair
    /\ p_dirs' = p_dirs \cup {<<"edges", CypherSafeTableName(p_table), PairDirOf(pair)>>}
    /\ p_idx' = 0
    /\ UNCHANGED <<p_nodes, p_edges, p_chunk_size, p_path, p_done, p_table, p_pairs_done,
                   p_files, ppc>>
    /\ UNCHANGED outsidePart

\* one chunk file of a pair: f"{base}/{subj}_{obj}/{safe}.{subj}_{obj}.{idx}.parquet"
WriteEdgeChunk(ids) ==
    /\ Exporting("edges")
    /\ p_pair # NoPair
    /\ LET rows == EdgeRowsOf(p_table, p_pair[1], p_pair[2])
           safe == CypherSafeTableName(p_table)
       IN  /\ p_idx * p_chunk_size \in ChunkOffsets(Cardinality(rows), p_chunk_size)
           /\ ids \in Pages(rows, p_chunk_size, p_idx * p_chunk_size)
           /\ p_files' = WriteMetanameTable(p_files, "edges", safe, PairDirOf(p_pair),
                                            safe \o <<".">> \o PairDirOf(p_pair), p_idx, ids,
                                            <<p_table, p_pair>>)
    /\ p_idx' = p_idx + 1
    /\ UNCHANGED <<p_nodes, p_edges, p_chunk_size, p_path, p_done, p_table, p_pairs_done,
                   p_pair, p_dirs, ppc>>
    /\ UNCHANGED outsidePart

\* the chunk offsets of the pair are used up
EndPair ==
    /\ Exporting("edges")
    /\ p_pair # NoPair
    /\ p_idx * p_chunk_size
          \notin ChunkOffsets(Cardinality(EdgeRowsOf(p_table, p_pair[1], p_pair[2])), p_chunk_size)
    /\ p_pairs_done' = p_pairs_done \cup {p_pair}
    /\ p_pair' = NoPair
    /\ p_idx' = 0
    /\ UNCHANGED <<p_nodes, p_edges, p_chunk_size, p_path, p_done, p_table, p_files,
                   p_dirs, ppc>>
    /\ UNCHANGED outsidePart

\* the iteration of a table_name ends: its chunk offsets, or its pairs, are
\* used up
EndTable ==
    /\ ppc = "export"
    /\ p_path <= Len(PartitionPaths)
    /\ p_table # NoName
    /\ IF PartitionPaths[p_path] = "nodes"
       THEN p_idx * p_chunk_size
               \notin ChunkOffsets(Cardinality(NodeRowsOf(p_table)), p_chunk_size)
       ELSE p_pair = NoPair /\ DistinctNodeTypePairs(p_table) \subseteq p_pairs_done
    /\ p_done' = p_done \cup {p_table}
    /\ p_table' = NoName
    /\ p_pairs_done' = {}
    /\ p_idx' = 0
    /\ UNCHANGED <<p_nodes, p_edges, p_chunk_size, p_path, p_pair, p_files, p_dirs,
                   ppc>>
    /\ UNCHANGED outsidePart

\* every table_name of the dataset is exported: next dataset
ExportNextPath ==
    /\ ppc = "export"
    /\ p_path <= Len(PartitionPaths)
    /\ p_table = NoName
    /\ GatherTableNames(PartitionPaths[p_path]) \subseteq p_done
    /\ p_path' = p_path + 1
    /\ p_done' = {}
    /\ UNCHANGED <<p_nodes, p_edges, p_chunk_size, p_table, p_pairs_done, p_pair, p_idx,
                   p_files, p_dirs, ppc>>
    /\ UNCHANGED outsidePart

\* the export cell is over: the comparison cell starts
ExportDone ==
    /\ ppc = "export"
    /\ p_path > Len(PartitionPaths)
    /\ ppc' = "compare"
    /\ p_path' = 1
    /\ UNCHANGED <<p_nodes, p_edges, p_chunk_size, p_done, p_table, p_pairs_done, p_pair,
                   p_idx, p_files, p_dirs>>
    /\ UNCHANGED outsidePart

\* gather_parquet_dataset_size_from_path of the coarse dataset `<dataset>/*`
SourceSize(dataset) == IF dataset = "nodes" THEN Len(p_nodes) ELSE Len(p_edges)

\* gather_parquet_dataset_size_from_path of the metanames glob `<dataset>/**`
TargetSize(dataset) == SumRows(FilesOf(p_files, dataset))

\* read_parquet of a glob that matches no file raises duckdb's IOException
\* ("No files found that match the pattern") before a row is counted: the
\* coarse glob `<dataset>/*` of a dataset without rows, the metanames glob
\* `<dataset>/**` when the export wrote no file under it
NoFilesMatch(dataset) ==
    \/ SourceSize(dataset) = 0
    \/ FilesOf(p_files, dataset) = {}

\* one iteration of `for source, target in [...]`: ValueError when the sizes
\* are not equal; the exception of a size query ends the cell before the
\* sizes are compared
Compare ==
    /\ ppc = "compare"
    /\ p_path <= Len(PartitionPaths)
    /\ IF NoFilesMatch(PartitionPaths[p_path])
       THEN /\ ppc' = "ioerror"
            /\ UNCHANGED p_path
       ELSE IF CountsDiffer(SourceSize(PartitionPaths[p_path]),
                            TargetSize(PartitionPaths[p_path]))
            THEN /\ ppc' = "failed"
                 /\ UNCHANGED p_path
            ELSE /\ p_path' = p_path + 1
                 /\ UNCHANGED ppc
    /\ UNCHANGED <<p_nodes, p_edges, p_chunk_size, p_done, p_table, p_pairs_done, p_pair,
                   p_idx, p_files, p_dirs>>
    /\ UNCHANGED outsidePart

\* both datasets passed the comparison
Compared ==
    /\ ppc = "compare"
    /\ p_path > Len(PartitionPaths)
    /\ ppc' = "done"
    /\ UNCHANGED <<p_nodes, p_edges, p_chunk_size, p_path, p_done, p_table, p_pairs_done,
                   p_pair, p_idx, p_files, p_dirs>>
    /\ UNCHANGED outsidePart

----------------------------------------------------------------------------
(* The schema-to-DDL translator: generate_cypher_table_create_stmt_from_   *)
(* parquet_path of kuzu_utils/kz_create.py and the notebooks' older        *)
(* generate_cypher_table_create_stmt_from_parquet_file.                    *)

\* parquet_to_cypher_type_mapping.get(str(field.type)): None for a type the
\* mapping does not have
CypherType(type) ==
    CASE type = "string" -> "STRING"
      [] type = "int64" -> "INT64"
      [] type = "list<element: string>" -> "STRING[]"
      [] OTHER -> "None"

\* the fields a schema handed to the translator is made of
SchemaFields ==
    {[name |-> "id", type |-> "string"],
     [name |-> "subject", type |-> "string"],
     [name |-> "object", type |-> "string"],
     [name |-> "name", type |-> "large_string"],
     [name |-> "publications", type |-> "list<element: string>"]}

\* the (subj, obj) pairs a rel_table_field_mapping is made of
TypePairs == {<<<<"Gene">>, <<"Drug">>>>, <<<<"Drug">>, <<"Drug">>>>}

\* the table_name argument of the call
ATableName == <<"treats">>

NoStmt == [op |-> "none", table |-> NoName, clauses |-> <<>>, fields |-> <<>>, pkey |-> ""]

\* `[field.name for field in parquet_schema]`
SchemaNames(schema) == [i \in 1..Len(schema) |-> schema[i].name]

InSchema(name, schema) == \E i \in 1..Len(schema) : schema[i].name = name

\* mutant: the first two columns are left out for a node table too
KeepsField_PayloadOnly(table_type, idx) == idx > 1

\* `if table_type == "node" or (table_type == "rel" and idx > 1)`, idx from 0
KeepsField(table_type, idx) == table_type = "node" \/ (table_type = "rel" /\ idx > 1)

RECURSIVE CypherFieldsFrom(_, _, _)
\* cypher_fields_from_parquet_schema: f"{field.name} {type}" of the fields
\* kept, from position idx on
CypherFieldsFrom(schema, table_type, idx) ==
    IF idx >= Len(schema) THEN <<>>
    ELSE (IF KeepsField(table_type, idx)
          THEN <<[name |-> schema[idx + 1].name, type |-> CypherType(schema[idx + 1].type)]>>
          ELSE <<>>)
         \o CypherFieldsFrom(schema, table_type, idx + 1)

CypherFieldsFromParquetSchema(schema, table_type) == CypherFieldsFrom(schema, table_type, 0)

\* subj_and_objs: f"FROM {subj} TO {obj}" for each pair, in list order
SubjAndObjs(mapping) ==
    [i \in 1..Len(mapping) |-> [from |-> mapping[i][1], to |-> mapping[i][2]]]

\* mutant: an empty list of pairs gives a plain relationship table too
IsSinglePair_AtMostOne(n) == n <= 1

\* `len(rel_table_field_mapping) == 1`
IsSinglePair(n) == n = 1

RelTblStart(mapping) ==
    IF IsSinglePair(Len(mapping)) THEN "CREATE REL TABLE" ELSE "CREATE REL TABLE GROUP"

NodeTableStmt(table_name, schema, pkey) ==
    [op |-> "CREATE NODE TABLE", table |-> table_name, clauses |-> <<>>,
     fields |-> CypherFieldsFromParquetSchema(schema, "node"), pkey |-> pkey]

RelTableStmt(table_name, schema, mapping) ==
    [op |-> RelTblStart(mapping), table |-> table_name, clauses |-> SubjAndObjs(mapping),
     fields |-> CypherFieldsFromParquetSchema(schema, "rel"), pkey |-> ""]

\* the notebooks' function: always one FROM/TO clause and a plain table
RelTableStmtOfFile(table_name, schema, mapping) ==
    [op |-> "CREATE REL TABLE", table |-> table_name,
     clauses |-> <<[from |-> mapping[1][1], to |-> mapping[1][2]]>>,
     fields |-> CypherFieldsFromParquetSchema(schema, "rel"), pkey |-> ""]

\* kz_create.py: the primary key is looked up in the node branch only
GenerateFromParquetPath ==
    /\ dpc = "call"
    /\ d_impl = "kz_create"
    /\ IF d_table_type = "node"
       THEN IF ~InSchema(d_pkey, d_schema)
            THEN /\ dpc' = "LookupError"
                 /\ d_result' = NoStmt
            ELSE /\ dpc' = "returned"
                 /\ d_result' = NodeTableStmt(ATableName, d_schema, d_pkey)
       ELSE /\ dpc' = "returned"
            /\ d_result' = RelTableStmt(ATableName, d_schema, d_mapping)
    /\ UNCHANGED <<d_impl, d_schema, d_table_type, d_mapping, d_pkey>>
    /\ UNCHANGED outsideDdl

\* rtx_kg2_functions.py: the primary key is looked up before the branch, for
\* either table type
GenerateFromParquetFile ==
    /\ dpc = "call"
    /\ d_impl = "notebook"
    /\ IF ~InSchema(d_pkey, d_schema)
       THEN /\ dpc' = "LookupError"
            /\ d_result' = NoStmt
       ELSE /\ dpc' = "returned"
            /\ d_result' = IF d_table_type = "node"
                           THEN NodeTableStmt(ATableName, d_schema, d_pkey)
                           ELSE RelTableStmtOfFile(ATableName, d_schema, d_mapping)
    /\ UNCHANGED <<d_impl, d_schema, d_table_type, d_mapping, d_pkey>>
    /\ UNCHANGED outsideDdl

----------------------------------------------------------------------------
(* The create-tables cell of rtx_kg2_metanames_parquet_to_kuzu.py: for     *)
(* each table name drop_table_if_exists, then the CREATE statement.        *)

\* a message of a failed DROP that is not about a missing table
OtherDropMsg == <<"IO exception: Cannot write to the database file.">>

\* what kz_conn.execute may do with a DROP TABLE: return, or raise
DropResponses == {Ok} \cup [cls : ExcClasses, msg : {OtherMsg, OtherDropMsg}]

\* the failure of a DROP of a table the store does not have
IsNoSuchTable(e) == e.cls = "RuntimeError" /\ e.msg = OtherMsg

\* `except Exception as e`: every class of ExcClasses is Exception or below it
CatchesException(e) == e.cls \in {"RuntimeError", "Exception"}

\* drop_table_if_exists(kz_conn, cypher_safe_table_name)
DropTableIfExists(r) ==
    /\ tpc = "drop"
    /\ t_pos <= Len(t_tables)
    /\ t_drops' = Append(t_drops, r)
    /\ IF r = Ok
         THEN /\ tpc' = "create"
              /\ UNCHANGED <<t_warned, t_raised>>
       ELSE IF CatchesException(r)
         THEN /\ t_warned' = t_warned + 1
              /\ tpc' = "create"
              /\ UNCHANGED t_raised
       ELSE /\ tpc' = "raised"
            /\ t_raised' = r
            /\ UNCHANGED t_warned
    /\ UNCHANGED <<t_tables, t_pos, t_created>>
    /\ UNCHANGED outsideDrop

\* kz_conn.execute(create_stmt) of the same iteration
CreateAfterDrop(r) ==
    /\ tpc = "create"
    /\ t_created' = t_created \cup {t_tables[t_pos]}
    /\ IF r = Ok
       THEN /\ t_pos' = t_pos + 1
            /\ tpc' = "drop"
            /\ UNCHANGED t_raised
       ELSE /\ tpc' = "raised"
            /\ t_raised' = r
            /\ UNCHANGED t_pos
    /\ UNCHANGED <<t_tables, t_drops, t_warned>>
    /\ UNCHANGED outsideDrop

\* the table names are used up
CreateCellDone ==
    /\ tpc = "drop"
    /\ t_pos > Len(t_tables)
    /\ tpc' = "done"
    /\ UNCHANGED <<t_tables, t_pos, t_drops, t_warned, t_created, t_raised>>
    /\ UNCHANGED outsideDrop

----------------------------------------------------------------------------
(* Idle values of each component.                                          *)

ACopyStmt == CopyStmt("node", <<"Gene">>, <<<<"Gene">>>>)

IdleRetry ==
    /\ kz_impl = "kz_copy"
    /\ kz_stmt = ACopyStmt
    /\ retry_arg = 0
    /\ retry_count = 0
    /\ kpc = "idle"
    /\ responses = <<>>
    /\ sleeps = 0
    /\ raised = NoExc

IdleLoad ==
    /\ node_cats = {}
    /\ edge_dirs = {}
    /\ lpc = "idle"
    /\ path_idx = 1
    /\ creates = {}
    /\ copies = {}
    /\ called = {}
    /\ cur_table = NoTable

IdleReader ==
    /\ n_items = 0
    /\ chunk_size = 0
    /\ limit = 0
    /\ consumed = 0
    /\ chunk = <<>>
    /\ limit_count = 0
    /\ batches = <<>>
    /\ rpc = "idle"

IdleNames ==
    /\ root = "map"
    /\ stack = <<>>
    /\ n_events = 0
    /\ depth = 0
    /\ names = <<>>
    /\ root_keys = <<>>
    /\ nested_keys = {}
    /\ npc = "idle"

IdleJson ==
    /\ doc = <<>>
    /\ edge_fields = <<>>
    /\ j_chunk_size = 0
    /\ j_counts = <<>>
    /\ j_pos = 1
    /\ j_idx = 0
    /\ j_files = {}
    /\ j_run = 0
    /\ jpc = "idle"

IdlePart ==
    /\ p_nodes = <<>>
    /\ p_edges = <<>>
    /\ p_chunk_size = 0
    /\ p_path = 1
    /\ p_done = {}
    /\ p_table = NoName
    /\ p_pairs_done = {}
    /\ p_pair = NoPair
    /\ p_idx = 0
    /\ p_files = {}
    /\ p_dirs = {}
    /\ ppc = "idle"

IdleDdl ==
    /\ d_impl = "kz_create"
    /\ d_schema = <<>>
    /\ d_table_type = "node"
    /\ d_mapping = <<>>
    /\ d_pkey = ""
    /\ d_result = NoStmt
    /\ dpc = "idle"

IdleDrop ==
    /\ t_tables = <<>>
    /\ t_pos = 1
    /\ t_drops = <<>>
    /\ t_warned = 0
    /\ t_created = {}
    /\ t_raised = NoExc
    /\ tpc = "idle"

----------------------------------------------------------------------------
(* SpecRetry: one call with any implementation and any budget.             *)

InitRetry ==
    /\ kz_impl \in {"kz_copy", "notebook"}
    /\ kz_stmt = ACopyStmt
    /\ retry_arg \in 0..MaxRetry
    /\ retry_count = retry_arg
    /\ kpc = "loop"
    /\ responses = <<>>
    /\ sleeps = 0
    /\ raised = NoExc
    /\ IdleLoad
    /\ IdleReader
    /\ IdleNames
    /\ IdleJson
    /\ IdlePart
    /\ IdleDdl
    /\ IdleDrop

RetryAttempt(r) == KzAttempt(r) /\ UNCHANGED outsideRetry

RetryLoopExit == KzLoopExit /\ UNCHANGED outsideRetry

NextRetry ==
    \/ \E r \in StoreResponses : RetryAttempt(r)
    \/ RetryLoopExit

SpecRetry == InitRetry /\ [][NextRetry]_vars

----------------------------------------------------------------------------
(* SpecLoad: run_create_and_copy over a metaname dataset that passed the   *)
(* partitioner's row-count comparison: every edges pair directory is named *)
(* after the types of two categories of the nodes dataset.                 *)

EdgeDirsOver(cats) ==
    {[pred |-> p, dir |-> PairDirName(CypherSafeTableName(s), CypherSafeTableName(o))] :
        p \in Predicates, s \in cats, o \in cats}

InitLoad ==
    /\ node_cats \in SUBSET Categories
    /\ edge_dirs \in {ds \in SUBSET EdgeDirsOver(node_cats) : Cardinality(ds) <= MaxEdgeDirs}
    /\ lpc = "create"
    /\ path_idx = 1
    /\ creates = {}
    /\ copies = {}
    /\ called = {}
    /\ cur_table = NoTable
    /\ IdleRetry
    /\ IdleReader
    /\ IdleNames
    /\ IdleJson
    /\ IdlePart
    /\ IdleDdl
    /\ IdleDrop

NextLoad ==
    \/ \E c \in Categories, r \in CreateResponses : CreateNodeTable(c, r)
    \/ \E p \in Predicates, r \in CreateResponses : CreateRelTable(p, r)
    \/ CreateNextPath
    \/ CreateReturns
    \/ \E t \in NodeTableDirs : CopyNodeTable(t)
    \/ \E k \in edge_dirs : CopyRelTable(Split(k.pred, ":")[2], k.dir)
    \/ \E r \in StoreResponses : IngestAttempt(r)
    \/ IngestLoopExit
    \/ IngestNextPath
    \/ IngestReturns

SpecLoad == InitLoad /\ [][NextLoad]_vars

----------------------------------------------------------------------------
(* SpecReader: one run of the generator, driven to its end by the consumer *)
(* (`for value in items`), over any collection, chunk_size and limit.      *)

InitReader ==
    /\ n_items \in 0..MaxItems
    /\ chunk_size \in 0..MaxChunk
    /\ limit \in 0..MaxLimit
    /\ consumed = 0
    /\ chunk = <<>>
    /\ limit_count = 0
    /\ batches = <<>>
    /\ rpc = "loop"
    /\ IdleRetry
    /\ IdleLoad
    /\ IdleNames
    /\ IdleJson
    /\ IdlePart
    /\ IdleDdl
    /\ IdleDrop

NextReader == ReadItem \/ ReadEnd

SpecReader == InitReader /\ [][NextReader]_vars

----------------------------------------------------------------------------
(* SpecNames: one run of the generator over any well-formed document whose *)
(* event stream has at most MaxEvents events.                              *)

InitNames ==
    /\ root \in {"map", "array"}
    /\ stack = <<>>
    /\ n_events = 0
    /\ depth = 0
    /\ names = <<>>
    /\ root_keys = <<>>
    /\ nested_keys = {}
    /\ npc = "start"
    /\ IdleRetry
    /\ IdleLoad
    /\ IdleReader
    /\ IdleJson
    /\ IdlePart
    /\ IdleDdl
    /\ IdleDrop

NextNames ==
    \/ \E e \in NextEvents : ParseEvent(e)
    \/ ParseEnd

SpecNames == InitNames /\ [][NextNames]_vars

----------------------------------------------------------------------------
(* SpecJson: runs of the JSON-to-columnar notebook over one document and   *)
(* one parquet_dir, which is empty before the first run.                   *)

InitJson ==
    /\ doc \in Docs
    /\ edge_fields \in EdgeFieldOrders
    /\ j_chunk_size \in 1..MaxChunk
    /\ j_counts = <<>>
    /\ j_pos = 1
    /\ j_idx = 0
    /\ j_files = {}
    /\ j_run = 1
    /\ jpc = "inspect"
    /\ IdleRetry
    /\ IdleLoad
    /\ IdleReader
    /\ IdleNames
    /\ IdlePart
    /\ IdleDdl
    /\ IdleDrop

NextJson ==
    \/ Inspect
    \/ StartCollection
    \/ WriterReadItem
    \/ WriterReadEnd
    \/ WriteBatch
    \/ EndCollection
    \/ WriteDone
    \/ Validate
    \/ Validated
    \/ \E c \in 1..MaxChunk : Rerun(c)

SpecJson == InitJson /\ [][NextJson]_vars

----------------------------------------------------------------------------
(* SpecPartition: one run of the partitioner over coarse datasets the      *)
(* writer produced, in a parquet_metanames_dir that is absent or left by   *)
(* an earlier run.  Node ids are unique (row i has id i); an edge endpoint *)
(* is any id up to MaxNodeRows, so it dangles when the nodes dataset is    *)
(* shorter.  The order of the rows of a coarse dataset is not significant: *)
(* the edges are drawn in one order per multiset of rows.                  *)

EdgeRows == [subject : 1..MaxNodeRows, object : 1..MaxNodeRows, predicate : SourcePredicates]

EdgeRowRank(e) ==
    ((e.subject - 1) * MaxNodeRows + (e.object - 1)) * Len(SourcePredicateList)
        + (CHOOSE i \in 1..Len(SourcePredicateList) : SourcePredicateList[i] = e.predicate)

SeqsUpTo(S, n) == UNION {[1..k -> S] : k \in 0..n}

CoarseEdges ==
    {es \in SeqsUpTo(EdgeRows, MaxEdgeRows) :
        \A i \in 1..(Len(es) - 1) : EdgeRowRank(es[i]) <= EdgeRowRank(es[i + 1])}

\* a file an earlier run left in parquet_metanames_dir
StaleFiles ==
    {[dataset |-> "nodes", table |-> <<"Gene">>, pair |-> NoPair, name |-> <<"Gene">>,
      idx |-> 1, rows |-> 1, ids |-> {1}, columns |-> NodeFields,
      metadata |-> ArrowResultMetadata,
      part |-> <<<<"biolink", ":", "Gene">>>>, run |-> EarlierRun]}

InitPartition ==
    /\ p_nodes \in SeqsUpTo(SourceCategories, MaxNodeRows)
    /\ p_edges \in CoarseEdges
    /\ p_chunk_size \in 1..MaxPartChunk
    /\ edge_fields = <<"predicate", "object", "id", "subject">>
    /\ p_path = 1
    /\ p_done = {}
    /\ p_table = NoName
    /\ p_pairs_done = {}
    /\ p_pair = NoPair
    /\ p_idx = 0
    /\ p_files \in {{}, StaleFiles}
    /\ p_dirs = {}
    /\ ppc = "clobber"
    /\ doc = <<>>
    /\ j_chunk_size = 0
    /\ j_counts = <<>>
    /\ j_pos = 1
    /\ j_idx = 0
    /\ j_files = {}
    /\ j_run = 0
    /\ jpc = "idle"
    /\ IdleRetry
    /\ IdleLoad
    /\ IdleReader
    /\ IdleNames
    /\ IdleDdl
    /\ IdleDrop

NextPartition ==
    \/ Clobber
    \/ \E t \in SourceCategories \cup SourcePredicates : StartTable(t)
    \/ \E ids \in SUBSET NodeIds : WriteNodeChunk(ids)
    \/ \E s, o \in {Null} \cup {SplitPart(c, ":", 2) : c \in SourceCategories} : StartPair(<<s, o>>)
    \/ \E ids \in SUBSET EdgeIds : WriteEdgeChunk(ids)
    \/ EndPair
    \/ EndTable
    \/ ExportNextPath
    \/ ExportDone
    \/ Compare
    \/ Compared

SpecPartition == InitPartition /\ [][NextPartition]_vars

----------------------------------------------------------------------------
(* SpecChunks: one run of the partitioner over datasets with one larger    *)
(* dataset: up to MaxPartRows nodes of any categories and no edge, or up   *)
(* to MaxPartRows edges of one predicate from node 1 to node 1, which      *)
(* dangle when the nodes dataset is empty.                                 *)

\* k edges of one (predicate, subject, object)
SameEdges(k) ==
    [i \in 1..k |-> [subject |-> 1, object |-> 1, predicate |-> SourcePredicateList[1]]]

InitChunks ==
    /\ p_nodes \in SeqsUpTo(SourceCategories, MaxPartRows)
    /\ p_edges \in {SameEdges(k) : k \in 0..MaxPartRows}
    /\ Len(p_nodes) <= 1 \/ p_edges = <<>>
    /\ p_chunk_size \in 1..MaxPartChunk
    /\ edge_fields = <<"predicate", "object", "id", "subject">>
    /\ p_path = 1
    /\ p_done = {}
    /\ p_table = NoName
    /\ p_pairs_done = {}
    /\ p_pair = NoPair
    /\ p_idx = 0
    /\ p_files = {}
    /\ p_dirs = {}
    /\ ppc = "clobber"
    /\ doc = <<>>
    /\ j_chunk_size = 0
    /\ j_counts = <<>>
    /\ j_pos = 1
    /\ j_idx = 0
    /\ j_files = {}
    /\ j_run = 0
    /\ jpc = "idle"
    /\ IdleRetry
    /\ IdleLoad
    /\ IdleReader
    /\ IdleNames
    /\ IdleDdl
    /\ IdleDrop

SpecChunks == InitChunks /\ [][NextPartition]_vars

----------------------------------------------------------------------------
(* SpecStages: a run of either stage that writes columnar datasets, the    *)
(* JSON-to-columnar notebook or the metaname partitioner.                  *)

InitStages == InitJson \/ InitPartition

NextStages == NextJson \/ NextPartition

SpecStages == InitStages /\ [][NextStages]_vars

----------------------------------------------------------------------------
(* SpecDdl: one call of a translator with any schema of distinct fields,   *)
(* either table type and any list of pairs; the notebooks' function takes  *)
(* one pair.                                                               *)

DistinctSeqs(S, n) ==
    {q \in SeqsUpTo(S, n) : \A i, j \in 1..Len(q) : i # j => q[i] # q[j]}

InitDdl ==
    /\ d_impl \in {"kz_create", "notebook"}
    /\ d_schema \in DistinctSeqs(SchemaFields, MaxCols)
    /\ d_table_type \in {"node", "rel"}
    /\ d_mapping \in SeqsUpTo(TypePairs, MaxPairs)
    /\ d_impl = "notebook" => Len(d_mapping) = 1
    /\ d_pkey = "id"
    /\ d_result = NoStmt
    /\ dpc = "call"
    /\ IdleRetry
    /\ IdleLoad
    /\ IdleReader
    /\ IdleNames
    /\ IdleJson
    /\ IdlePart
    /\ IdleDrop

NextDdl == GenerateFromParquetPath \/ GenerateFromParquetFile

SpecDdl == InitDdl /\ [][NextDdl]_vars

----------------------------------------------------------------------------
(* SpecDrop: the create-tables cell over any list of distinct table names, *)
(* with any answer of the store to each DROP and each CREATE.              *)

InitDrop ==
    /\ t_tables \in DistinctSeqs(TypeNames, MaxTables)
    /\ t_pos = 1
    /\ t_drops = <<>>
    /\ t_warned = 0
    /\ t_created = {}
    /\ t_raised = NoExc
    /\ tpc = "drop"
    /\ IdleRetry
    /\ IdleLoad
    /\ IdleReader
    /\ IdleNames
    /\ IdleJson
    /\ IdlePart
    /\ IdleDdl

NextDrop ==
    \/ \E r \in DropResponses : DropTableIfExists(r)
    \/ \E r \in CreateResponses : CreateAfterDrop(r)
    \/ CreateCellDone

SpecDrop == InitDrop /\ [][NextDrop]_vars

----------------------------------------------------------------------------
(* Properties of the load pipeline (SpecLoad).                             *)

\* a step that sends a CREATE statement of the given kind to the store
CreateIssued(kind) == \E c \in creates' \ creates : c.kind = kind

\* a step that sends a COPY statement of the given kind to the store
CopyIssued(kind) ==
    /\ lpc = "ingest"
    /\ Len(responses') = Len(responses) + 1
    /\ kz_stmt.kind = kind

RelOpIssuedBefore ==
    \/ \E c \in creates : c.kind = "rel"
    \/ \E s \in copies : s.kind = "rel"

----------------------------------------------------------------------------
(* Properties of kz_execute_with_retries (SpecRetry).                      *)

Ended == kpc \in {"returned", "raised"}

\* C2: when every attempt of the statement fails with the primary-key error,
\* the call ends by raising that error; it never returns normally.
C2_ExhaustionPropagates ==
    (Ended /\ responses # <<>> /\ AllPkey(responses))
        => (kpc = "raised" /\ IsPkeyError(raised))

\* C3: against a store that always raises the primary-key error, a call with
\* budget n >= 1 executes the statement exactly n times, with one wait between
\* a failed attempt and the next.
C3_AttemptsEqualBudget ==
    (Ended /\ retry_arg >= 1 /\ responses # <<>> /\ AllPkey(responses))
        => (attempts = retry_arg /\ sleeps = retry_arg - 1)

\* C4: in both implementations an attempt that fails with the already-copied
\* error ends the call normally: nothing is raised, no budget is consumed for
\* it and the statement is not attempted again.
C4_AlreadyCopiedAbsorbed ==
    \A i \in 1..Len(responses) :
        IsAlreadyCopiedError(responses[i])
            => /\ i = Len(responses)
               /\ kpc = "returned"
               /\ raised = NoExc
               /\ retry_count = retry_arg - PkeyCount(responses)

\* C5: an attempt that fails with any error other than the already-copied and
\* the primary-key errors ends the call at once by raising that error: it is
\* the last attempt, and no wait and no budget is spent on it, on the first
\* attempt or after earlier primary-key retries.
C5_OtherErrorPropagates ==
    \A i \in 1..Len(responses) :
        IsOtherError(responses[i])
            => /\ i = Len(responses)
               /\ kpc = "raised"
               /\ raised = responses[i]
               /\ sleeps = PkeyCount(SubSeq(responses, 1, i - 1))
               /\ retry_count = retry_arg - PkeyCount(SubSeq(responses, 1, i - 1))

\* another error raised after two primary-key retries
C5_Witness ==
    /\ kpc = "raised"
    /\ IsOtherError(raised)
    /\ Len(responses) = 3
    /\ sleeps = 2

----------------------------------------------------------------------------
(* Properties of parse_items_by_topmost_item_name (SpecReader).            *)

\* C7: for chunk_size >= 1 and limit L >= 1 the reader never emits more than
\* L batches, and when it has finished the emitted records are exactly the
\* first min(N, L * chunk_size) records in source order.
C7_LimitCountsBatches ==
    (chunk_size >= 1 /\ limit >= 1)
        => /\ Len(batches) <= limit
           /\ rpc = "done" =>
                Flatten(batches) = [i \in 1..Min(n_items, limit * chunk_size) |-> i]

\* chunk_size 2, limit 1 over 5 records: exactly one batch, of 2 records
C7_Witness ==
    /\ rpc = "done"
    /\ chunk_size = 2
    /\ limit = 1
    /\ n_items = 5
    /\ batches = <<<<1, 2>>>>

\* C8: for chunk_size >= 1 and any limit, every emitted batch has between 1
\* and chunk_size records, and every batch but the last has exactly chunk_size.
C8_BatchSizes ==
    chunk_size >= 1
        => \A i \in 1..Len(batches) :
              /\ Len(batches[i]) >= 1
              /\ Len(batches[i]) <= chunk_size
              /\ i < Len(batches) => Len(batches[i]) = chunk_size

\* a finished unlimited run of two batches whose last batch is partial
C8_Witness ==
    /\ rpc = "done"
    /\ limit = 0
    /\ Len(batches) = 2
    /\ Len(batches[1]) = chunk_size
    /\ Len(batches[2]) < chunk_size

\* C9: with a limit L >= 1, once the L-th batch has been emitted the reader
\* draws no further record from the source stream.
C9_StopsConsumingAtLimit ==
    (chunk_size >= 1 /\ limit >= 1 /\ Len(batches) >= limit)
        => consumed <= limit * chunk_size

----------------------------------------------------------------------------
(* Properties of find_top_level_names (SpecNames).                         *)

\* C10: for a document whose root is a JSON object the names yielded are
\* exactly the keys of the root object, in document order; no key of a nested
\* object is yielded, at any depth or under an array.
C10_TopLevelNamesOnly == root = "map" => names = root_keys

\* a finished document with a root key and an object inside a top-level array
\* that uses the same key
C10_Witness ==
    /\ npc = "done"
    /\ root = "map"
    /\ names = <<"nodes">>
    /\ \E k \in nested_keys : k.key = "nodes" /\ k.parent = Array /\ k.level = 3

----------------------------------------------------------------------------
(* Properties of the JSON-to-columnar notebook (SpecJson).                 *)

Inspected == jpc \in {"write", "validate", "done", "failed"}

\* the write loop of the run is over
Written == jpc \in {"validate", "done", "failed"}

Ceil(n, c) == (n + c - 1) \div c

\* C12: once the write loop of a run with chunk_size >= 1 is over, each of the
\* item-collections nodes and edges of N records has been written as one file
\* per batch, numbered 0..k-1, and the row counts of the files of its dataset
\* directory sum to N.
C12_RowCountRoundTrip ==
    (Written /\ j_chunk_size >= 1) =>
        \A k \in 1..Len(ItemCollections) :
            LET name == ItemCollections[k]
                N == ValueOf(name).n
            IN  name \in {"nodes", "edges"} =>
                  /\ {f.idx : f \in {g \in FilesOf(j_files, name) : g.run = j_run}}
                        = 0..(Ceil(N, j_chunk_size) - 1)
                  /\ SumRows(FilesOf(j_files, name)) = N

----------------------------------------------------------------------------
(* Properties of the stages that write columnar datasets (SpecStages).     *)

\* C13: in the validation after a bulk write, of the JSON-to-columnar notebook
\* and of the partitioner, a source count that differs from the sum of the
\* row counts of the dataset's files raises ValueError and the run stops
\* there (nothing is written or compared afterwards); the comparison passes
\* on to the next dataset only when the two numbers are equal, and a run ends
\* normally only when every dataset passed.
C13_MismatchRaisesValueError ==
    [][/\ (jpc = "validate" /\ j_pos <= Len(ItemCollections)) =>
             IF ItemCount(ItemCollections[j_pos])
                    # SumRows(FilesOf(j_files, ItemCollections[j_pos]))
             THEN jpc' = "failed"
             ELSE jpc' = "validate" /\ j_pos' = j_pos + 1
       /\ (ppc = "compare" /\ p_path <= Len(PartitionPaths)) =>
             IF SourceSize(PartitionPaths[p_path]) # TargetSize(PartitionPaths[p_path])
             THEN ppc' = "failed"
             ELSE ppc' = "compare" /\ p_path' = p_path + 1
       /\ jpc = "failed" => (j_files' = j_files /\ (jpc' = "failed" \/ j_run' = j_run + 1))
       /\ ppc = "failed" => (p_files' = p_files /\ ppc' = "failed")
       /\ jpc' = "done" =>
             \A k \in 1..Len(ItemCollections) :
                 ItemCount(ItemCollections[k]) = SumRows(FilesOf(j_files, ItemCollections[k]))
       /\ ppc' = "done" =>
             \A k \in 1..Len(PartitionPaths) :
                 SourceSize(PartitionPaths[k]) = TargetSize(PartitionPaths[k])]_vars

\* C13, amended: as above, except that the partitioner's comparison of a
\* dataset one of whose globs matches no file stops the run with the
\* exception of the size query instead of ValueError; it raises ValueError
\* exactly when both globs match files and the two numbers differ, and after
\* either exception nothing is written or compared.
C13_MismatchStopsTheRun ==
    [][/\ (jpc = "validate" /\ j_pos <= Len(ItemCollections)) =>
             IF ItemCount(ItemCollections[j_pos])
                    # SumRows(FilesOf(j_files, ItemCollections[j_pos]))
             THEN jpc' = "failed"
             ELSE jpc' = "validate" /\ j_pos' = j_pos + 1
       /\ (ppc = "compare" /\ p_path <= Len(PartitionPaths)) =>
             IF NoFilesMatch(PartitionPaths[p_path])
             THEN ppc' = "ioerror"
             ELSE IF SourceSize(PartitionPaths[p_path]) # TargetSize(PartitionPaths[p_path])
                  THEN ppc' = "failed"
                  ELSE ppc' = "compare" /\ p_path' = p_path + 1
       /\ jpc = "failed" => (j_files' = j_files /\ (jpc' = "failed" \/ j_run' = j_run + 1))
       /\ ppc \in {"failed", "ioerror"} => (p_files' = p_files /\ ppc' = ppc)
       /\ jpc' = "done" =>
             \A k \in 1..Len(ItemCollections) :
                 ItemCount(ItemCollections[k]) = SumRows(FilesOf(j_files, ItemCollections[k]))
       /\ ppc' = "done" =>
             \A k \in 1..Len(PartitionPaths) :
                 /\ ~NoFilesMatch(PartitionPaths[k])
                 /\ SourceSize(PartitionPaths[k]) = TargetSize(PartitionPaths[k])]_vars

\* the validation raised: the nodes collection has two records and its
\* dataset directory files that sum to three rows
C13_Witness ==
    /\ jpc = "failed"
    /\ ItemCollections[j_pos] = "nodes"
    /\ ItemCount("nodes") = 2
    /\ SumRows(FilesOf(j_files, "nodes")) = 3

\* C14: once a run of a stage has written its datasets, the stage's dataset
\* directory holds exactly the files that run wrote: no file of an earlier
\* run of the JSON-to-columnar notebook is left in parquet_dir, none of an
\* earlier run of the partitioner in parquet_metanames_dir.
C14_DatasetsRegenerated ==
    /\ Written => \A f \in j_files : f.run = j_run
    /\ ppc \in {"export", "compare", "done", "failed", "ioerror"}
          => \A f \in p_files : f.run = ThisRun

\* the position of a name in a sequence of distinct names
PositionIn(names_, name) == CHOOSE i \in 1..Len(names_) : names_[i] = name

\* a schema of the columns of a file, as the translator reads it
SchemaOf(columns) == [i \in 1..Len(columns) |-> [name |-> columns[i], type |-> "string"]]

\* the columns are subject, object, then the other fields of the records in
\* their order, and the translator's payload columns of a relationship table
\* are those other fields
EndpointsFirst(columns, fields) ==
    /\ Len(columns) = Len(fields)
    /\ Len(columns) >= 2
    /\ columns[1] = "subject"
    /\ columns[2] = "object"
    /\ \A a \in 3..Len(columns) :
          /\ columns[a] \notin {"subject", "object"}
          /\ \E i \in 1..Len(fields) : fields[i] = columns[a]
    /\ \A a, b \in 3..Len(columns) :
          a < b => PositionIn(fields, columns[a]) < PositionIn(fields, columns[b])
    /\ SchemaNames(CypherFieldsFromParquetSchema(SchemaOf(columns), "rel"))
          = SubSeq(columns, 3, Len(columns))

\* C15: in every edges file the writer produces, and in every edge
\* sub-dataset file the partitioner derives from the writer's files, the
\* first two columns are subject and object in that order and the other
\* columns keep their relative order; the two columns the translator skips by
\* position for a relationship table are those two, and no other.
C15_EndpointColumnsFirst ==
    /\ \A f \in j_files : f.dataset = "edges" => EndpointsFirst(f.columns, edge_fields)
    /\ \A f \in p_files : f.dataset = "edges" => EndpointsFirst(f.columns, edge_fields)

\* an edge sub-dataset file derived from records whose keys come in the order
\* predicate, object, id, subject
C15_Witness ==
    \E f \in p_files :
        /\ f.dataset = "edges"
        /\ edge_fields = <<"predicate", "object", "id", "subject">>
        /\ f.columns = <<"subject", "object", "predicate", "id">>

----------------------------------------------------------------------------
(* Properties of the schema-to-DDL translator (SpecDdl).                   *)

\* C16: for a node table the translator returns a CREATE NODE TABLE statement
\* that lists every column of the schema once, in schema order, with PRIMARY
\* KEY (<pk>), when the primary-key field is in the schema; when it is not,
\* it raises LookupError and returns no statement.
C16_NodeTableAllColumns ==
    (d_table_type = "node" /\ dpc # "call") =>
        IF InSchema(d_pkey, d_schema)
        THEN /\ dpc = "returned"
             /\ d_result.op = "CREATE NODE TABLE"
             /\ SchemaNames(d_result.fields) = SchemaNames(d_schema)
             /\ d_result.pkey = d_pkey
        ELSE /\ dpc = "LookupError"
             /\ d_result = NoStmt

\* a node statement over id, name, publications, none dropped
C16_Witness ==
    /\ dpc = "returned"
    /\ d_impl = "kz_create"
    /\ d_table_type = "node"
    /\ SchemaNames(d_schema) = <<"id", "name", "publications">>
    /\ SchemaNames(d_result.fields) = <<"id", "name", "publications">>
    /\ d_result.pkey = "id"

\* C17: for a relationship table over a schema of n >= 2 columns the
\* translator returns a statement whose payload columns are the n - 2 columns
\* after the first two, with one FROM/TO clause per pair supplied, in the
\* order supplied; the primary-key field need not be in the schema.
C17_RelTablePayloadAndPairs ==
    (d_table_type = "rel" /\ Len(d_schema) >= 2 /\ dpc # "call") =>
        /\ dpc = "returned"
        /\ SchemaNames(d_result.fields) = SubSeq(SchemaNames(d_schema), 3, Len(d_schema))
        /\ Len(d_result.clauses) = Len(d_mapping)
        /\ \A i \in 1..Len(d_mapping) :
              d_result.clauses[i] = [from |-> d_mapping[i][1], to |-> d_mapping[i][2]]

\* C18: the translator emits a plain CREATE REL TABLE <name>
\* exactly when one pair is supplied, and a CREATE REL TABLE GROUP <name>
\* with a FROM/TO clause for every pair when more than one is supplied.
C18_PlainIffOnePair ==
    (d_table_type = "rel" /\ dpc = "returned") =>
        /\ d_result.table = ATableName
        /\ d_result.op = "CREATE REL TABLE" <=> Len(d_mapping) = 1
        /\ Len(d_mapping) > 1 =>
              /\ d_result.op = "CREATE REL TABLE GROUP"
              /\ \A i \in 1..Len(d_mapping) :
                    \E k \in 1..Len(d_result.clauses) :
                        d_result.clauses[k] = [from |-> d_mapping[i][1], to |-> d_mapping[i][2]]

\* a group statement over two pairs
C18_Witness ==
    /\ dpc = "returned"
    /\ d_impl = "kz_create"
    /\ d_table_type = "rel"
    /\ Len(d_mapping) = 2
    /\ d_mapping[1] # d_mapping[2]
    /\ d_result.op = "CREATE REL TABLE GROUP"
    /\ Len(d_result.clauses) = 2

----------------------------------------------------------------------------
(* Properties of the metaname partitioner (SpecPartition).                 *)

\* the export loop has finished the nodes dataset
NodesExported ==
    (ppc = "export" /\ p_path > 1) \/ ppc \in {"compare", "done", "failed", "ioerror"}

\* the export loop has finished both datasets
EdgesExported == ppc \in {"compare", "done", "failed", "ioerror"}

\* C19: for a coarse nodes dataset whose rows each carry a `prefix:TypeName`
\* category and a chunk_size >= 1, once the partitioner has exported the nodes
\* the row counts of the files of all per-category node sub-datasets sum to
\* the row count of the coarse nodes dataset.
C19_NodePartitionComplete ==
    (NodesExported /\ p_chunk_size >= 1)
        => SumRows(FilesOf(p_files, "nodes")) = Len(p_nodes)

\* the (predicate, (subject-category, object-category)) triples the export
\* loop visits
ExportedTriples ==
    UNION {{<<t, pair>> : pair \in DistinctNodeTypePairs(t)} : t \in GatherTableNames("edges")}

\* C20: once the partitioner has exported the edges, the row counts of the
\* files of all (predicate, subject-category, object-category) edge
\* sub-datasets sum to the row count of the coarse edges dataset, and each
\* coarse edge row is counted by the export of exactly one such triple.
C20_EdgePartitionComplete ==
    EdgesExported =>
        /\ SumRows(FilesOf(p_files, "edges")) = Len(p_edges)
        /\ \A i \in EdgeIds :
              Cardinality({tp \in ExportedTriples :
                              i \in EdgeRowsOf(tp[1], tp[2][1], tp[2][2])}) = 1

\* two files have the same path under parquet_metanames_dir
SamePath(f, g) ==
    /\ f.dataset = g.dataset
    /\ f.table = g.table
    /\ f.pair = g.pair
    /\ f.name = g.name
    /\ f.idx = g.idx

\* C21: the export jobs of two different partitions (two distinct node
\* categories, or two distinct (predicate, subject-category, object-category)
\* triples) never write the same path: a file written during the export never
\* has the path of a file that the export of another partition wrote.
C21_DisjointOutputPaths ==
    [][ppc = "export" =>
          \A f \in p_files : \A g \in p_files' :
              SamePath(f, g) => f.part = g.part]_vars

----------------------------------------------------------------------------
(* Properties of the create-tables cell (SpecDrop).                        *)

\* C22: a DROP that succeeds or fails because the table does not exist is
\* followed by the CREATE and no exception leaves drop_table_if_exists; a
\* DROP that fails in any other way ends the cell with that exception,
\* unchanged.
C22_DropAbsorbsOnlyMissingTable ==
    [][(tpc = "drop" /\ Len(t_drops') = Len(t_drops) + 1) =>
          LET r == t_drops'[Len(t_drops')]
          IN  IF r = Ok \/ IsNoSuchTable(r)
              THEN tpc' = "create" /\ t_raised' = NoExc
              ELSE tpc' = "raised" /\ t_raised' = r]_vars

----------------------------------------------------------------------------
(* Properties of the file-level metadata (SpecStages).                     *)

\* the keys of a metadata mapping
KeysOf(metadata) == {kv[1] : kv \in metadata}

\* C23: every file a run of the JSON-to-columnar notebook writes carries the
\* metadata dict (one entry per metadata collection and the entry
\* source_data_json_schema), the same for all its files, and every file a
\* run of the partitioner writes carries a dict with the entry
\* source_data_json_schema too.
C23_EveryFileCarriesMetadata ==
    /\ \A f \in j_files :
          f.run = j_run =>
              /\ f.metadata = MetadataDict
              /\ KeysOf(f.metadata) = MetadataTopLevelNames \cup {SchemaKey}
    /\ \A f \in p_files : f.run = ThisRun => SchemaKey \in KeysOf(f.metadata)

----------------------------------------------------------------------------
(* Properties of the chunked export (SpecChunks).                          *)

\* the files of this run written by the export of a partition
FilesOfPart(part) == {f \in p_files : f.part = part /\ f.run = ThisRun}

\* the export of a partition of R rows left Ceil(R, C) files numbered
\* from 0, file i with the C rows of offset i * C, or with the rows that are
\* left when fewer
ChunkedAs(part, R) ==
    LET mine == FilesOfPart(part)
        k == Ceil(R, p_chunk_size)
    IN  /\ Cardinality(mine) = k
        /\ {f.idx : f \in mine} = 0..(k - 1)
        /\ \A f \in mine : f.rows = Min(p_chunk_size, R - f.idx * p_chunk_size)
        /\ \A f \in mine : f.idx < k - 1 => f.rows = p_chunk_size

\* C24: when the export of a partition ends (a node category, or a
\* predicate with a pair of node types), with R rows matching it and chunk
\* size C >= 1, it has written exactly ceil(R/C) files, numbered
\* 0..ceil(R/C)-1 by ascending offset, each but the last of C rows and the
\* last of the rows that are left; for R = 0 it has written no file.
C24_ChunkFiles ==
    [][/\ (Exporting("nodes") /\ p_table # NoName /\ p_table' = NoName)
            => ChunkedAs(<<p_table>>, Cardinality(NodeRowsOf(p_table)))
       /\ (Exporting("edges") /\ p_pair # NoPair /\ p_pair' = NoPair)
            => ChunkedAs(<<p_table, p_pair>>,
                         Cardinality(EdgeRowsOf(p_table, p_pair[1], p_pair[2])))]_vars

\* a category of MaxPartRows rows was exported with chunk size MaxPartChunk
\* as more than one file, the last one shorter
C24_Witness ==
    \E c \in SourceCategories :
        /\ c \in p_done
        /\ Cardinality(NodeRowsOf(c)) = MaxPartRows
        /\ p_chunk_size = MaxPartChunk
        /\ MaxPartRows % MaxPartChunk # 0
        /\ Cardinality(FilesOfPart(<<c>>)) > 1
        /\ {<<f.idx, f.rows>> : f \in FilesOfPart(<<c>>)}
              = {<<i, Min(MaxPartChunk, MaxPartRows - i * MaxPartChunk)>> :
                    i \in 0..(Ceil(MaxPartRows, MaxPartChunk) - 1)}

----------------------------------------------------------------------------
(* Further properties of the load pipeline (SpecLoad).                     *)

\* C25: when create_kuzu_tables sends a relationship-table CREATE, the
\* CREATE of every node table has been sent; when the ingest sends a
\* relationship-table COPY, the COPY of every node table has been sent and no
\* node-table COPY, first attempt or retry, is sent after a
\* relationship-table COPY was started.
C25_NodesFirstInEachPhase ==
    [][/\ CreateIssued("rel") =>
            /\ \A c \in node_cats : NodeCreateStmt(CypherSafeTableName(c)) \in creates
            /\ ~CreateIssued("node")
       /\ CopyIssued("rel") =>
            \A t \in NodeTableDirs : CopyStmt("node", t, <<t>>) \in copies
       /\ CopyIssued("node") => \A s \in called : s.kind = "node"]_vars

\* a relationship-table COPY is at the store after the COPYs of two node
\* tables
C25_Witness ==
    /\ lpc = "ingest"
    /\ kz_stmt.kind = "rel"
    /\ kz_stmt \in copies
    /\ Cardinality({s \in copies : s.kind = "node"}) >= 2
    /\ \E c \in creates : c.kind = "rel"

----------------------------------------------------------------------------
(* Further properties of kz_execute_with_retries (SpecRetry).              *)

\* C26: a call with retry_count >= 1 that has ended has sent the statement to
\* the store at least once, and a call with retry_count = 1 that returned has
\* sent it exactly once.
C26_ExecutesAtLeastOnce ==
    (Ended /\ retry_arg >= 1) =>
        /\ attempts >= 1
        /\ (retry_arg = 1 /\ kpc = "returned") => attempts = 1

----------------------------------------------------------------------------
(* Further properties of the chunked export (SpecChunks).                  *)

\* each row is in exactly one of the files the export of the partition wrote
ExactlyOnce(rows, part) ==
    \A i \in rows : Cardinality({f \in FilesOfPart(part) : i \in f.ids}) = 1

\* C27: when the export of a partition ends, every coarse row matching the
\* partition is in exactly one chunk file of it, whatever order the engine
\* gave the rows in each of the LIMIT/OFFSET queries.
C27_ExactlyOncePerRow ==
    [][/\ (Exporting("nodes") /\ p_table # NoName /\ p_table' = NoName)
            => ExactlyOnce(NodeRowsOf(p_table), <<p_table>>)
       /\ (Exporting("edges") /\ p_pair # NoPair /\ p_pair' = NoPair)
            => ExactlyOnce(EdgeRowsOf(p_table, p_pair[1], p_pair[2]),
                           <<p_table, p_pair>>)]_vars

\* the pairs of node types of the dataset the partitioner encodes as a
\* directory name
PairsEncodedAs(dir) ==
    {pr \in NodeTableDirs \X NodeTableDirs : PairDirName(pr[1], pr[2]) = dir}

\* C28: for every relationship table create_kuzu_tables splits each pair
\* directory name '<subj>_<obj>' into its two elements without failing, and
\* the FROM/TO pairs of the CREATE it sends are exactly the (subj, obj) pairs
\* the partitioner encoded in the names of the table's pair directories.
C28_PairNamesRoundTrip ==
    [][(/\ lpc = "create"
        /\ path_idx <= Len(CreatePaths)
        /\ DecodedType(CreatePaths[path_idx]) = "rel") =>
          /\ lpc' = "failed" => creates' # creates
          /\ \A c \in creates' \ creates :
                c.pairs = UNION {PairsEncodedAs(d) : d \in RelNodePairs(c.table)}]_vars

DanglingEdges ==
    {i \in EdgeIds : p_edges[i].subject \notin NodeIds \/ p_edges[i].object \notin NodeIds}

EdgesCompared ==
    /\ ppc = "compare"
    /\ p_path <= Len(PartitionPaths)
    /\ PartitionPaths[p_path] = "edges"

\* C30: a dangling edge is never silently lost: when the subject or object
\* id of some edge is the id of no node row, no file of an edge sub-dataset
\* holds that edge, and the comparison of the edges datasets raises
\* ValueError instead of going on to report success.
C30_DanglingEdgeRaisesValueError ==
    [][DanglingEdges # {} =>
          /\ \A f \in FilesOf(p_files', "edges") : f.ids \cap DanglingEdges = {}
          /\ ppc' # "done"
          /\ EdgesCompared => ppc' = "failed"]_vars

\* C30, amended: with a dangling edge no file of an edge sub-dataset holds
\* that edge and the run never reports success: the comparison of the edges
\* datasets raises ValueError when the export wrote an edge file, and ends
\* with the exception of the size query when it wrote none.
C30_DanglingEdgeStopsTheRun ==
    [][DanglingEdges # {} =>
          /\ \A f \in FilesOf(p_files', "edges") : f.ids \cap DanglingEdges = {}
          /\ ppc' # "done"
          /\ EdgesCompared =>
                ppc' = IF FilesOf(p_files, "edges") = {} THEN "ioerror" ELSE "failed"]_vars

\* the comparison raised ValueError for the edges: one edge dangles, the
\* other is in a file of its sub-dataset
C30_Witness ==
    /\ ppc = "failed"
    /\ PartitionPaths[p_path] = "edges"
    /\ DanglingEdges # {}
    /\ \E f \in FilesOf(p_files, "edges") : f.ids # {}

====
